---------------------------- MODULE Spec2Model ----------------------------
(***************************************************************************)
(* A model of the surreal-gis core: the geometry aggregate and its cached  *)
(* bounding box (surrealgis-core), the R*-tree backed spatial index        *)
(* (surrealgis-index) and the three clustering algorithms                  *)
(* (surrealgis-functions/clustering).                                      *)
(*                                                                         *)
(* f64 values are modelled by integers.  In the geometry part one model    *)
(* unit is f64::EPSILON, so two coordinates that differ by 1 differ by     *)
(* exactly the tolerance of validate_ring.  Option<T> is a sequence of     *)
(* length at most one: <<>> is None and <<v>> is Some(v).  Result<T, E> is *)
(* a record [ok |-> TRUE, val |-> v] or [ok |-> FALSE, err |-> e].         *)
(***************************************************************************)
EXTENDS Integers, Sequences, FiniteSets, Bags, TLC

VARIABLES
    tree,       \* index: the bag of IndexedGeometry entries held by the RTree
    last,       \* index: the last operation called on the index and what it returned
    removed,    \* index: ids whose remove() returned true and that were not inserted since
    gin,        \* geometry: the raw input handed to the last constructor called
    gout,       \* geometry: the Result that constructor returned
    gpc,        \* geometry: "start", "built" or "recomputed"
    db,         \* st_cluster_dbscan: arguments, locals and position of one call
    uf,         \* st_cluster_within: arguments, locals and position of one call
    km          \* st_cluster_kmeans: arguments, locals and position of one call

vars == <<tree, last, removed, gin, gout, gpc, db, uf, km>>

ivars == <<tree, last, removed>>

gvars == <<gin, gout, gpc>>

None == <<>>

Some(v) == <<v>>

IsSome(o) == Len(o) = 1

Unwrap(o) == o[1]

Ok(v) == [ok |-> TRUE, val |-> v]

Err(e) == [ok |-> FALSE, err |-> e]

Min2(a, b) == IF a < b THEN a ELSE b

Max2(a, b) == IF a > b THEN a ELSE b

Abs(a) == IF a < 0 THEN -a ELSE a

SeqRange(s) == {s[i] : i \in 1..Len(s)}

(***************************************************************************)
(* surrealgis-core: coordinate.rs, bbox.rs                                 *)
(***************************************************************************)

\* f64::MAX, the start value of the min folds (f64::MIN is its negation)
F64_MAX == 1000

\* f64::EPSILON in model units
EPSILON == 1

\* the f64 values that are no finite number: +infinity lies beyond f64::MAX,
\* -infinity is its negation, and NAN is a code that only the operators below
\* look at
INFINITY == 2 * F64_MAX

NAN == 3 * F64_MAX

\* f64::is_finite
is_finite(a) == a # NAN /\ a # INFINITY /\ a # -INFINITY

\* a < b and a <= b on f64: false as soon as one side is NaN
F64Lt(a, b) == a # NAN /\ b # NAN /\ a < b

F64Le(a, b) == a # NAN /\ b # NAN /\ a <= b

\* a + b and a - b on f64, for a finite a
F64Add(a, b) == IF is_finite(b) THEN a + b ELSE b

F64Sub(a, b) == IF b = NAN THEN NAN ELSE F64Add(a, -b)

\* a * b on f64
F64Mul(a, b) ==
    IF a = NAN \/ b = NAN THEN NAN
    ELSE IF ~is_finite(a) \/ ~is_finite(b)
         THEN (IF a = 0 \/ b = 0 THEN NAN
               ELSE IF (a < 0) = (b < 0) THEN INFINITY ELSE -INFINITY)
         ELSE a * b

\* Coordinate::new
Coordinate(x, y) == [x |-> x, y |-> y, z |-> None, m |-> None]

\* Coordinate::new_3d
Coordinate3d(x, y, z) == [x |-> x, y |-> y, z |-> Some(z), m |-> None]

BoundingBox(min_x, min_y, max_x, max_y) ==
    [min_x |-> min_x, min_y |-> min_y, max_x |-> max_x, max_y |-> max_y]

\* the loop of BoundingBox::from_coordinates, from index i on
RECURSIVE FromCoordinatesLoop(_, _, _)
FromCoordinatesLoop(coords, i, acc) ==
    IF i > Len(coords) THEN acc
    ELSE LET c == coords[i]
             a1 == IF c.x < acc.min_x THEN [acc EXCEPT !.min_x = c.x] ELSE acc
             a2 == IF c.y < a1.min_y THEN [a1 EXCEPT !.min_y = c.y] ELSE a1
             a3 == IF c.x > a2.max_x THEN [a2 EXCEPT !.max_x = c.x] ELSE a2
             a4 == IF c.y > a3.max_y THEN [a3 EXCEPT !.max_y = c.y] ELSE a3
         IN  FromCoordinatesLoop(coords, i + 1, a4)

\* from_coordinates with the running minima and maxima started at 0
from_coordinates_from_zero(coords) ==
    IF Len(coords) = 0 THEN None
    ELSE Some(FromCoordinatesLoop(coords, 1, BoundingBox(0, 0, 0, 0)))

\* BoundingBox::from_coordinates
from_coordinates(coords) ==
    IF Len(coords) = 0 THEN None
    ELSE Some(FromCoordinatesLoop(coords, 1,
                  BoundingBox(F64_MAX, F64_MAX, -F64_MAX, -F64_MAX)))

\* BoundingBox::intersects
intersects(a, b) ==
    /\ a.min_x <= b.max_x
    /\ a.max_x >= b.min_x
    /\ a.min_y <= b.max_y
    /\ a.max_y >= b.min_y

\* BoundingBox::contains
contains(a, b) ==
    /\ a.min_x <= b.min_x
    /\ a.max_x >= b.max_x
    /\ a.min_y <= b.min_y
    /\ a.max_y >= b.max_y

\* BoundingBox::contains_coordinate
contains_coordinate(a, c) ==
    /\ c.x >= a.min_x
    /\ c.x <= a.max_x
    /\ c.y >= a.min_y
    /\ c.y <= a.max_y

\* expand that keeps the maxima of the first box
expand_keep_max(a, b) ==
    BoundingBox(Min2(a.min_x, b.min_x), Min2(a.min_y, b.min_y), a.max_x, a.max_y)

\* BoundingBox::expand
expand(a, b) ==
    BoundingBox(Min2(a.min_x, b.min_x), Min2(a.min_y, b.min_y),
                Max2(a.max_x, b.max_x), Max2(a.max_y, b.max_y))

(***************************************************************************)
(* surrealgis-core: validation.rs                                          *)
(***************************************************************************)

\* validate_linestring
validate_linestring(coords) ==
    IF Len(coords) < 2 THEN Err("InvalidGeometry") ELSE Ok("unit")

\* validate_ring
validate_ring(ring) ==
    IF Len(ring) < 4 THEN Err("InvalidGeometry")
    ELSE LET first == ring[1]
             lastc == ring[Len(ring)]
         IN  IF Abs(first.x - lastc.x) > EPSILON \/ Abs(first.y - lastc.y) > EPSILON
             THEN Err("InvalidGeometry")
             ELSE Ok("unit")

\* validate_polygon
validate_polygon(exterior, holes) ==
    IF ~validate_ring(exterior).ok THEN Err("InvalidGeometry")
    ELSE IF \E i \in 1..Len(holes) : ~validate_ring(holes[i]).ok
         THEN Err("InvalidGeometry")
         ELSE Ok("unit")

\* is_valid_geometry
RECURSIVE is_valid_geometry(_)
is_valid_geometry(geom) ==
    LET gt == geom.geometry_type
    IN  CASE gt.kind = "Point" -> TRUE
          [] gt.kind = "LineString" -> validate_linestring(gt.coords).ok
          [] gt.kind = "Polygon" -> validate_polygon(gt.exterior, gt.holes).ok
          [] gt.kind = "MultiPoint" -> Len(gt.coords) # 0
          [] gt.kind = "MultiLineString" ->
                /\ Len(gt.lines) # 0
                /\ \A i \in 1..Len(gt.lines) : validate_linestring(gt.lines[i]).ok
          [] gt.kind = "MultiPolygon" ->
                /\ Len(gt.polygons) # 0
                /\ \A i \in 1..Len(gt.polygons) :
                       validate_polygon(gt.polygons[i].exterior, gt.polygons[i].holes).ok
          [] gt.kind = "GeometryCollection" ->
                /\ Len(gt.geoms) # 0
                /\ \A i \in 1..Len(gt.geoms) : is_valid_geometry(gt.geoms[i])

(***************************************************************************)
(* surrealgis-core: geometry.rs                                            *)
(***************************************************************************)

\* GeometryFlags set by every constructor: HAS_SRID, and HAS_BBOX iff bbox.is_some()
FlagsFor(bbox) == IF IsSome(bbox) THEN {"HAS_SRID", "HAS_BBOX"} ELSE {"HAS_SRID"}

SurrealGeometry(gt, srid, bbox) ==
    [geometry_type |-> gt, srid |-> srid, bbox |-> bbox, flags |-> FlagsFor(bbox)]

\* lines.iter().flatten().cloned().collect()
RECURSIVE Flatten(_)
Flatten(ss) == IF Len(ss) = 0 THEN <<>> ELSE Head(ss) \o Flatten(Tail(ss))

\* polygons.iter().flat_map(|p| p.exterior.iter()).cloned().collect()
Exteriors(polygons) == Flatten([i \in 1..Len(polygons) |-> polygons[i].exterior])

\* the fold over the children's cached bboxes (geometry_collection, compute_bbox_for)
RECURSIVE FoldChildBBox(_, _, _)
FoldChildBBox(geoms, i, acc) ==
    IF i > Len(geoms) THEN acc
    ELSE LET b == geoms[i].bbox
             nxt == IF IsSome(b)
                    THEN (IF IsSome(acc) THEN Some(expand(Unwrap(acc), Unwrap(b))) ELSE b)
                    ELSE acc
         IN  FoldChildBBox(geoms, i + 1, nxt)

\* SurrealGeometry::point
point(x, y, srid) ==
    LET coord == Coordinate(x, y)
    IN  Ok(SurrealGeometry([kind |-> "Point", c |-> coord], srid,
                           from_coordinates(<<coord>>)))

\* SurrealGeometry::line_string
line_string(coords, srid) ==
    IF ~validate_linestring(coords).ok THEN Err("InvalidGeometry")
    ELSE Ok(SurrealGeometry([kind |-> "LineString", coords |-> coords], srid,
                            from_coordinates(coords)))

\* SurrealGeometry::polygon
polygon(exterior, holes, srid) ==
    IF ~validate_polygon(exterior, holes).ok THEN Err("InvalidGeometry")
    ELSE Ok(SurrealGeometry([kind |-> "Polygon", exterior |-> exterior, holes |-> holes],
                            srid, from_coordinates(exterior)))

\* SurrealGeometry::multi_point
multi_point(coords, srid) ==
    IF Len(coords) = 0 THEN Err("EmptyGeometry")
    ELSE Ok(SurrealGeometry([kind |-> "MultiPoint", coords |-> coords], srid,
                            from_coordinates(coords)))

\* SurrealGeometry::multi_line_string
multi_line_string(lines, srid) ==
    IF Len(lines) = 0 THEN Err("EmptyGeometry")
    ELSE IF \E i \in 1..Len(lines) : ~validate_linestring(lines[i]).ok
         THEN Err("InvalidGeometry")
         ELSE Ok(SurrealGeometry([kind |-> "MultiLineString", lines |-> lines], srid,
                                 from_coordinates(Flatten(lines))))

\* SurrealGeometry::multi_polygon
multi_polygon(polygons, srid) ==
    IF Len(polygons) = 0 THEN Err("EmptyGeometry")
    ELSE IF \E i \in 1..Len(polygons) :
                ~validate_polygon(polygons[i].exterior, polygons[i].holes).ok
         THEN Err("InvalidGeometry")
         ELSE Ok(SurrealGeometry([kind |-> "MultiPolygon", polygons |-> polygons], srid,
                                 from_coordinates(Exteriors(polygons))))

\* SurrealGeometry::geometry_collection
geometry_collection(geometries, srid) ==
    IF Len(geometries) = 0 THEN Err("EmptyGeometry")
    ELSE Ok(SurrealGeometry([kind |-> "GeometryCollection", geoms |-> geometries], srid,
                            FoldChildBBox(geometries, 1, None)))

\* compute_bbox_for with the holes of a polygon counted in
compute_bbox_for_holes(gt) ==
    CASE gt.kind = "Point" -> from_coordinates(<<gt.c>>)
      [] gt.kind = "LineString" -> from_coordinates(gt.coords)
      [] gt.kind = "Polygon" -> from_coordinates(gt.exterior \o Flatten(gt.holes))
      [] gt.kind = "MultiPoint" -> from_coordinates(gt.coords)
      [] gt.kind = "MultiLineString" -> from_coordinates(Flatten(gt.lines))
      [] gt.kind = "MultiPolygon" -> from_coordinates(Exteriors(gt.polygons))
      [] gt.kind = "GeometryCollection" -> FoldChildBBox(gt.geoms, 1, None)

\* SurrealGeometry::compute_bbox_for
compute_bbox_for(gt) ==
    CASE gt.kind = "Point" -> from_coordinates(<<gt.c>>)
      [] gt.kind = "LineString" -> from_coordinates(gt.coords)
      [] gt.kind = "Polygon" -> from_coordinates(gt.exterior)
      [] gt.kind = "MultiPoint" -> from_coordinates(gt.coords)
      [] gt.kind = "MultiLineString" -> from_coordinates(Flatten(gt.lines))
      [] gt.kind = "MultiPolygon" -> from_coordinates(Exteriors(gt.polygons))
      [] gt.kind = "GeometryCollection" -> FoldChildBBox(gt.geoms, 1, None)

\* SurrealGeometry::compute_bbox
compute_bbox(g) ==
    LET bbox == compute_bbox_for(g.geometry_type)
    IN  [g EXCEPT !.bbox = bbox,
                  !.flags = IF IsSome(bbox) THEN g.flags \cup {"HAS_BBOX"}
                            ELSE g.flags \ {"HAS_BBOX"}]

\* SurrealGeometry::from_parts
from_parts(gt, srid) == SurrealGeometry(gt, srid, compute_bbox_for(gt))

(***************************************************************************)
(* The geometry state machine: a caller draws raw input, calls one smart   *)
(* constructor, may wrap the geometry it got into collections and may call *)
(* compute_bbox on it.                                                     *)
(***************************************************************************)

\* longest coordinate sequence handed to a constructor
MaxLen == 4

\* most holes of a polygon
MaxHoles == 1

\* most lines of a multi line string, most polygons of a multi polygon
MaxParts == 2

\* deepest nesting of geometry collections
MaxDepth == 2

WGS84 == 4326

WEB_MERCATOR == 3857

c00 == Coordinate(0, 0)

c10 == Coordinate(1, 0)

c23 == Coordinate(2, 3)

c00z == Coordinate3d(0, 0, 1)

Coords == {c00, c10, c23, c00z}

SeqsUpTo(S, n) == UNION {[1..k -> S] : k \in 0..n}

CoordSeqs == SeqsUpTo(Coords, MaxLen)

\* a closed ring, a ring closed only up to EPSILON, an open ring, a short ring,
\* a ring whose ends differ in z only
SmallRings ==
    { <<c00, c10, c23, c00>>, <<c00, c23, c23, c10>>, <<c00, c10, c10, c23>>,
      <<c00, c10, c00>>, <<c00, c10, c23, c00z>> }

SmallLines == { <<>>, <<c00>>, <<c00, c10>>, <<c10, c23, c00>> }

HoleSeqs == SeqsUpTo(SmallRings, MaxHoles)

SmallPolys == [exterior : SmallRings, holes : SeqsUpTo(SmallRings, 1)]

\* nesting depth of a geometry: 0 for every variant but a collection
RECURSIVE Depth(_)
Depth(g) ==
    IF g.geometry_type.kind # "GeometryCollection" THEN 0
    ELSE LET ch == g.geometry_type.geoms
             D[i \in 0..Len(ch)] ==
                 IF i = 0 THEN 0 ELSE Max2(D[i - 1], Depth(ch[i]))
         IN  1 + D[Len(ch)]

CallPoint ==
    /\ gpc = "start"
    /\ \E c \in Coords :
          /\ gin' = [ctor |-> "point", x |-> c.x, y |-> c.y]
          /\ gout' = point(c.x, c.y, WGS84)
    /\ gpc' = "built"
    /\ UNCHANGED <<ivars, db, uf, km>>

CallLineString ==
    /\ gpc = "start"
    /\ \E coords \in CoordSeqs :
          /\ gin' = [ctor |-> "line_string", coords |-> coords]
          /\ gout' = line_string(coords, WGS84)
    /\ gpc' = "built"
    /\ UNCHANGED <<ivars, db, uf, km>>

CallPolygon ==
    /\ gpc = "start"
    /\ \E exterior \in CoordSeqs, holes \in HoleSeqs :
          /\ gin' = [ctor |-> "polygon", exterior |-> exterior, holes |-> holes]
          /\ gout' = polygon(exterior, holes, WGS84)
    /\ gpc' = "built"
    /\ UNCHANGED <<ivars, db, uf, km>>

CallMultiPoint ==
    /\ gpc = "start"
    /\ \E coords \in CoordSeqs :
          /\ gin' = [ctor |-> "multi_point", coords |-> coords]
          /\ gout' = multi_point(coords, WGS84)
    /\ gpc' = "built"
    /\ UNCHANGED <<ivars, db, uf, km>>

CallMultiLineString ==
    /\ gpc = "start"
    /\ \E lines \in SeqsUpTo(SmallLines, MaxParts) :
          /\ gin' = [ctor |-> "multi_line_string", lines |-> lines]
          /\ gout' = multi_line_string(lines, WGS84)
    /\ gpc' = "built"
    /\ UNCHANGED <<ivars, db, uf, km>>

CallMultiPolygon ==
    /\ gpc = "start"
    /\ \E polygons \in SeqsUpTo(SmallPolys, MaxParts) :
          /\ gin' = [ctor |-> "multi_polygon", polygons |-> polygons]
          /\ gout' = multi_polygon(polygons, WGS84)
    /\ gpc' = "built"
    /\ UNCHANGED <<ivars, db, uf, km>>

\* geometry_collection over the geometry held, alone, twice, or beside a point;
\* or over no geometry at all
CallGeometryCollection ==
    /\ gpc \in {"built", "recomputed"}
    /\ gout.ok
    /\ Depth(gout.val) < MaxDepth
    /\ \E children \in { <<>>, <<gout.val>>, <<gout.val, gout.val>>,
                         <<point(2, 3, WGS84).val, gout.val>> } :
          /\ gin' = [ctor |-> "geometry_collection", children |-> children]
          /\ gout' = geometry_collection(children, WGS84)
    /\ gpc' = "built"
    /\ UNCHANGED <<ivars, db, uf, km>>

CallComputeBBox ==
    /\ gpc \in {"built", "recomputed"}
    /\ gout.ok
    /\ gout' = Ok(compute_bbox(gout.val))
    /\ gpc' = "recomputed"
    /\ UNCHANGED <<gin, ivars, db, uf, km>>

GeomNext ==
    \/ CallPoint
    \/ CallLineString
    \/ CallPolygon
    \/ CallMultiPoint
    \/ CallMultiLineString
    \/ CallMultiPolygon
    \/ CallGeometryCollection
    \/ CallComputeBBox

InitGeom ==
    /\ gin = [ctor |-> "none"]
    /\ gout = Err("none")
    /\ gpc = "start"
    /\ tree = EmptyBag
    /\ last = [op |-> "none"]
    /\ removed = {}
    /\ db = [pc |-> "idle"]
    /\ uf = [pc |-> "idle"]
    /\ km = [pc |-> "idle"]

SpecGeom == InitGeom /\ [][GeomNext]_vars

(***************************************************************************)
(* Geometry claims                                                         *)
(***************************************************************************)

\* every coordinate a geometry variant stores, hole rings and children included
RECURSIVE AllCoords(_)
AllCoords(g) ==
    LET gt == g.geometry_type
        PolyCoords(pd) == SeqRange(pd.exterior) \cup SeqRange(Flatten(pd.holes))
    IN  CASE gt.kind = "Point" -> {gt.c}
          [] gt.kind \in {"LineString", "MultiPoint"} -> SeqRange(gt.coords)
          [] gt.kind = "Polygon" -> PolyCoords(gt)
          [] gt.kind = "MultiLineString" -> SeqRange(Flatten(gt.lines))
          [] gt.kind = "MultiPolygon" ->
                UNION {PolyCoords(gt.polygons[i]) : i \in 1..Len(gt.polygons)}
          [] gt.kind = "GeometryCollection" ->
                UNION {AllCoords(gt.geoms[i]) : i \in 1..Len(gt.geoms)}

\* b is the tightest box around the coordinates S: it holds them all and each of
\* its four sides is attained
TightAround(b, S) ==
    /\ \A c \in S : contains_coordinate(b, c)
    /\ \E c \in S : c.x = b.min_x
    /\ \E c \in S : c.y = b.min_y
    /\ \E c \in S : c.x = b.max_x
    /\ \E c \in S : c.y = b.max_y

BBoxReflects(g, S) ==
    IF S = {} THEN g.bbox = None
    ELSE IsSome(g.bbox) /\ TightAround(Unwrap(g.bbox), S)

\* C5: the cached bbox of every geometry a constructor returned, and again after
\* compute_bbox, is the tightest box around every stored coordinate (holes and
\* children included), and is None only when there is no coordinate.
C5_BBoxCoversAllCoords ==
    gout.ok => BBoxReflects(gout.val, AllCoords(gout.val))

\* a ring has at least 4 points and is closed: its first point is its last
RingSound(ring) ==
    /\ Len(ring) >= 4
    /\ ring[1].x = ring[Len(ring)].x
    /\ ring[1].y = ring[Len(ring)].y

PolySound(pd) ==
    /\ RingSound(pd.exterior)
    /\ \A i \in 1..Len(pd.holes) : RingSound(pd.holes[i])

RECURSIVE StructurallySound(_)
StructurallySound(g) ==
    LET gt == g.geometry_type
    IN  CASE gt.kind = "Point" -> TRUE
          [] gt.kind = "LineString" -> Len(gt.coords) >= 2
          [] gt.kind = "Polygon" -> PolySound(gt)
          [] gt.kind = "MultiPoint" -> Len(gt.coords) >= 1
          [] gt.kind = "MultiLineString" ->
                /\ Len(gt.lines) >= 1
                /\ \A i \in 1..Len(gt.lines) : Len(gt.lines[i]) >= 2
          [] gt.kind = "MultiPolygon" ->
                /\ Len(gt.polygons) >= 1
                /\ \A i \in 1..Len(gt.polygons) : PolySound(gt.polygons[i])
          [] gt.kind = "GeometryCollection" ->
                /\ Len(gt.geoms) >= 1
                /\ \A i \in 1..Len(gt.geoms) : StructurallySound(gt.geoms[i])

\* the raw input of the last constructor call breaks one of the structural rules
InputUnsound ==
    CASE gin.ctor = "line_string" -> Len(gin.coords) < 2
      [] gin.ctor = "polygon" -> ~PolySound(gin)
      [] gin.ctor = "multi_point" -> Len(gin.coords) = 0
      [] gin.ctor = "multi_line_string" ->
            Len(gin.lines) = 0 \/ \E i \in 1..Len(gin.lines) : Len(gin.lines[i]) < 2
      [] gin.ctor = "multi_polygon" ->
            Len(gin.polygons) = 0 \/ \E i \in 1..Len(gin.polygons) : ~PolySound(gin.polygons[i])
      [] gin.ctor = "geometry_collection" ->
            Len(gin.children) = 0
            \/ \E i \in 1..Len(gin.children) : ~StructurallySound(gin.children[i])
      [] OTHER -> FALSE

\* C6: every geometry a smart constructor returned Ok is structurally sound
\* (is_valid_geometry holds; lines have >= 2 points, rings have >= 4 points and
\* are closed, multis and collections are non-empty, recursively), and a
\* constructor given input that breaks a rule returned an error.
C6_ConstructedIsSound ==
    /\ gout.ok => is_valid_geometry(gout.val) /\ StructurallySound(gout.val)
    /\ (gpc = "built" /\ InputUnsound) => ~gout.ok

(***************************************************************************)
(* surrealgis-index: indexed_geometry.rs, rtree_index.rs.  The RTree of    *)
(* the rstar crate is held as the bag of its entries; its operations are   *)
(* those of the crate's interface: insert keeps duplicates, remove takes   *)
(* out one element equal to its argument, nearest_neighbor_iter yields the *)
(* elements by ascending distance_2, and a Vec<usize> a query collects in  *)
(* tree order is the bag of its ids.                                       *)
(***************************************************************************)

\* rstar AABB::from_corners: the componentwise lower and upper corner
AABB_from_corners(p1, p2) ==
    [lower |-> <<Min2(p1[1], p2[1]), Min2(p1[2], p2[2])>>,
     upper |-> <<Max2(p1[1], p2[1]), Max2(p1[2], p2[2])>>]

\* rstar Envelope::intersects for AABB
AABB_intersects(a, b) ==
    /\ a.lower[1] <= b.upper[1]
    /\ a.lower[2] <= b.upper[2]
    /\ a.upper[1] >= b.lower[1]
    /\ a.upper[2] >= b.lower[2]

\* rstar AABB::distance_2: 0 inside the box, else to the nearest point of it
AABB_distance_2(a, pt) ==
    LET cx == Min2(a.upper[1], Max2(a.lower[1], pt[1]))
        cy == Min2(a.upper[2], Max2(a.lower[2], pt[2]))
    IN  (cx - pt[1]) * (cx - pt[1]) + (cy - pt[2]) * (cy - pt[2])

\* f64::sqrt of a squared distance; the result is in sixteenths of the model's
\* unit, rounded down
Sqrt(n) == CHOOSE r \in 0..(16 * n) : r * r <= 256 * n /\ (r + 1) * (r + 1) > 256 * n

\* IndexedGeometry::new
IndexedGeometry(id, bbox) ==
    [id |-> id,
     envelope |-> AABB_from_corners(<<bbox.min_x, bbox.min_y>>, <<bbox.max_x, bbox.max_y>>)]

\* IndexedGeometry: PartialEq
IndexedEq(a, b) == a.id = b.id

\* RTreeSpatialIndex::len
len(t) == BagCardinality(t)

\* the entries of a bag as a sequence, each as often as the bag holds it
RECURSIVE BagSeq(_)
BagSeq(t) ==
    IF t = EmptyBag THEN <<>>
    ELSE LET e == CHOOSE x \in BagToSet(t) : TRUE
         IN  <<e>> \o BagSeq(t (-) SetToBag({e}))

\* the bag of f(e) over the entries e of t that satisfy keep(e)
FilterIds(t, keep(_)) ==
    LET es == BagSeq(t)
        B[i \in 0..Len(es)] ==
            IF i = 0 THEN EmptyBag
            ELSE IF keep(es[i]) THEN B[i - 1] (+) SetToBag({es[i].id}) ELSE B[i - 1]
    IN  B[Len(es)]

\* RTreeSpatialIndex::insert
insert(t, id, geom) ==
    IF ~IsSome(geom.bbox) THEN Err("NoBoundingBox")
    ELSE Ok(t (+) SetToBag({IndexedGeometry(id, Unwrap(geom.bbox))}))

\* the loop of bulk_load: the entries indexed so far, or the first error
RECURSIVE BulkLoop(_, _, _)
BulkLoop(entries, i, indexed) ==
    IF i > Len(entries) THEN Ok(indexed)
    ELSE IF ~IsSome(entries[i][2].bbox) THEN Err("NoBoundingBox")
         ELSE BulkLoop(entries, i + 1,
                       indexed (+) SetToBag({IndexedGeometry(entries[i][1],
                                                             Unwrap(entries[i][2].bbox))}))

\* bulk_load that leaves out the entries without a bbox instead of failing
bulk_load_skip(entries) ==
    LET B[i \in 0..Len(entries)] ==
            IF i = 0 THEN EmptyBag
            ELSE IF IsSome(entries[i][2].bbox)
                 THEN B[i - 1] (+) SetToBag({IndexedGeometry(entries[i][1],
                                                             Unwrap(entries[i][2].bbox))})
                 ELSE B[i - 1]
    IN  Ok(B[Len(entries)])

\* RTreeSpatialIndex::bulk_load
bulk_load(entries) == BulkLoop(entries, 1, EmptyBag)

\* query_bbox with open intervals: boxes that only touch do not intersect
query_bbox_open(t, bbox) ==
    LET Hit(e) ==
            /\ e.envelope.lower[1] < bbox.max_x
            /\ e.envelope.lower[2] < bbox.max_y
            /\ e.envelope.upper[1] > bbox.min_x
            /\ e.envelope.upper[2] > bbox.min_y
    IN  FilterIds(t, Hit)

\* RTreeSpatialIndex::query_bbox
query_bbox(t, bbox) ==
    LET envelope == AABB_from_corners(<<bbox.min_x, bbox.min_y>>, <<bbox.max_x, bbox.max_y>>)
        Hit(e) == AABB_intersects(e.envelope, envelope)
    IN  FilterIds(t, Hit)

\* query_within_distance that hands the linear distance to locate_within_distance
query_within_distance_linear(t, pt, distance) ==
    LET Near(e) == AABB_distance_2(e.envelope, pt) <= distance
    IN  FilterIds(t, Near)

\* RTreeSpatialIndex::query_within_distance
query_within_distance(t, pt, distance) ==
    LET distance_sq == distance * distance
        Near(e) == AABB_distance_2(e.envelope, pt) <= distance_sq
    IN  FilterIds(t, Near)

\* the orders in which nearest_neighbor_iter may yield the entries: every order
\* of all of them by ascending distance_2
NearestOrders(t, pt) ==
    LET es == BagSeq(t)
        n == Len(es)
    IN  { [i \in 1..n |-> es[p[i]]] :
            p \in { q \in [1..n -> 1..n] :
                      /\ \A i, j \in 1..n : i # j => q[i] # q[j]
                      /\ \A i \in 1..n : i < n =>
                            AABB_distance_2(es[q[i]].envelope, pt)
                                <= AABB_distance_2(es[q[i + 1]].envelope, pt) } }

\* .take(k)
Take(s, k) == SubSeq(s, 1, Min2(k, Len(s)))

\* query_nearest that returns the squared distance
query_nearest_squared(order, pt, k) ==
    LET taken == Take(order, k)
    IN  [i \in 1..Len(taken) |->
            <<taken[i].id, 16 * AABB_distance_2(taken[i].envelope, pt)>>]

\* RTreeSpatialIndex::query_nearest, for one order of the iterator
query_nearest(order, pt, k) ==
    LET taken == Take(order, k)
    IN  [i \in 1..Len(taken) |->
            <<taken[i].id, Sqrt(AABB_distance_2(taken[i].envelope, pt))>>]

\* the entries iter().find(|e| e.id() == id) may return and tree.remove(&e) may
\* take out: those equal to an entry with that id
RemoveCandidates(t, id) ==
    {e \in BagToSet(t) : IndexedEq(e, [id |-> id])}

\* remove that matches the entry to take out by its envelope
remove_same_envelope(t, id) ==
    IF RemoveCandidates(t, id) = {} THEN {[ret |-> FALSE, tree |-> t]}
    ELSE {[ret |-> TRUE, tree |-> t (-) SetToBag({victim})] :
             victim \in {e \in BagToSet(t) :
                            \E c \in RemoveCandidates(t, id) :
                                e.envelope = c.envelope}}

\* RTreeSpatialIndex::remove: the outcomes it may have, one per entry the tree
\* may take out
remove(t, id) ==
    IF RemoveCandidates(t, id) = {} THEN {[ret |-> FALSE, tree |-> t]}
    ELSE {[ret |-> TRUE, tree |-> t (-) SetToBag({victim})] :
             victim \in RemoveCandidates(t, id)}

(***************************************************************************)
(* The index state machine: one index, made by new() or by bulk_load, and  *)
(* the calls of its owner.                                                 *)
(***************************************************************************)

\* most entries the index holds
MaxEntries == 2

\* largest id used
MaxId == 1

Ids == 0..MaxId

\* a geometry with no coordinate, as from_geo builds it from an empty MultiPoint
EmptyGeom == from_parts([kind |-> "MultiPoint", coords |-> <<>>], WGS84)

\* the geometries indexed: three points, a triangle whose bbox is the unit
\* square, and the geometry that has no bbox
IndexGeoms ==
    {point(0, 0, WGS84).val, point(1, 0, WGS84).val, point(1, 1, WGS84).val,
     polygon(<<Coordinate(0, 0), Coordinate(1, 0), Coordinate(1, 1),
               Coordinate(0, 0)>>, <<>>, WGS84).val,
     EmptyGeom}

QueryPoints == {<<0, 0>>, <<2, 0>>, <<3, 0>>, <<3, 1>>}

\* query boxes that contain, cross, touch at an edge or a corner, or miss the
\* bboxes indexed
QueryBoxes ==
    {BoundingBox(xs[1], ys[1], xs[2], ys[2]) :
        xs \in {<<0, 0>>, <<1, 2>>, <<2, 2>>, <<0, 2>>}, ys \in {<<0, 0>>, <<1, 1>>}}

QueryDistances == -2..3

\* the bag of <<id, bbox>> pairs of a list of (id, geometry) entries
PairBag(entries) ==
    LET B[i \in 0..Len(entries)] ==
            IF i = 0 THEN EmptyBag
            ELSE B[i - 1] (+) SetToBag({<<entries[i][1], entries[i][2].bbox>>})
    IN  B[Len(entries)]

\* an index exists (bulk_load did not fail).  A query leaves the index as it is:
\* the state that holds its result is observed and the index is followed from
\* the state the query was made in
HasIndex ==
    /\ ~(last.op = "bulk_load" /\ last.ret # "Ok")
    /\ last.op \notin {"query_bbox", "query_nearest", "query_within_distance"}

InitIndex ==
    /\ tree = EmptyBag
    /\ last = [op |-> "new"]
    /\ removed = {}
    /\ gin = [ctor |-> "none"]
    /\ gout = Err("none")
    /\ gpc = "start"
    /\ db = [pc |-> "idle"]
    /\ uf = [pc |-> "idle"]
    /\ km = [pc |-> "idle"]

Insert ==
    /\ HasIndex
    /\ len(tree) < MaxEntries
    /\ \E id \in Ids, geom \in IndexGeoms :
          LET r == insert(tree, id, geom)
          IN  /\ tree' = IF r.ok THEN r.val ELSE tree
              /\ last' = [op |-> "insert", id |-> id,
                          ret |-> IF r.ok THEN "Ok" ELSE r.err,
                          has_bbox |-> IsSome(geom.bbox),
                          len_before |-> len(tree),
                          same |-> (r.ok => r.val = tree)]
              /\ removed' = IF r.ok THEN removed \ {id} ELSE removed
    /\ UNCHANGED <<gvars, db, uf, km>>

\* the index is made by bulk_load instead of new()
BulkLoad ==
    /\ last.op = "new"
    /\ \E entries \in SeqsUpTo(Ids \X IndexGeoms, MaxEntries) :
          LET r == bulk_load(entries)
          IN  /\ tree' = IF r.ok THEN r.val ELSE tree
              /\ last' = [op |-> "bulk_load",
                          ret |-> IF r.ok THEN "Ok" ELSE r.err,
                          pairs |-> PairBag(entries),
                          none_at |-> {i \in 1..Len(entries) : ~IsSome(entries[i][2].bbox)}]
    /\ UNCHANGED <<removed, gvars, db, uf, km>>

Remove ==
    /\ HasIndex
    /\ \E id \in Ids :
          \E r \in remove(tree, id) :
              /\ tree' = r.tree
              /\ last' = [op |-> "remove", id |-> id, ret |-> r.ret,
                          len_before |-> len(tree), same |-> (r.tree = tree),
                          taken |-> BagToSet(tree (-) r.tree)]
              /\ removed' = IF r.ret THEN removed \cup {id} ELSE removed
    /\ UNCHANGED <<gvars, db, uf, km>>

QueryBBox ==
    /\ HasIndex
    /\ \E bbox \in QueryBoxes :
          last' = [op |-> "query_bbox", bbox |-> bbox, ret |-> query_bbox(tree, bbox)]
    /\ UNCHANGED <<tree, removed, gvars, db, uf, km>>

QueryNearest ==
    /\ HasIndex
    /\ \E pt \in QueryPoints, k \in 0..(MaxEntries + 1) :
          \E order \in NearestOrders(tree, pt) :
              last' = [op |-> "query_nearest", pt |-> pt, k |-> k,
                       ret |-> query_nearest(order, pt, k)]
    /\ UNCHANGED <<tree, removed, gvars, db, uf, km>>

QueryWithinDistance ==
    /\ HasIndex
    /\ \E pt \in QueryPoints, distance \in QueryDistances :
          last' = [op |-> "query_within_distance", pt |-> pt, distance |-> distance,
                   ret |-> query_within_distance(tree, pt, distance)]
    /\ UNCHANGED <<tree, removed, gvars, db, uf, km>>

IndexNext ==
    \/ Insert
    \/ BulkLoad
    \/ Remove
    \/ QueryBBox
    \/ QueryNearest
    \/ QueryWithinDistance

SpecIndex == InitIndex /\ [][IndexNext]_vars

(***************************************************************************)
(* Index claims                                                            *)
(***************************************************************************)

\* the ids a query returned
ResultIds ==
    CASE last.op = "query_nearest" -> {last.ret[i][1] : i \in 1..Len(last.ret)}
      [] last.op \in {"query_bbox", "query_within_distance"} -> BagToSet(last.ret)
      [] OTHER -> {}

\* C1: whenever remove(id) returned true, len() is one less than before the
\* call, and id is in the result of no later query until it is inserted again.
C1_RemoveThenAbsent ==
    /\ (last.op = "remove" /\ last.ret) => len(tree) = last.len_before - 1
    /\ \A id \in removed : id \notin ResultIds

\* the gap between a point and a closed interval, 0 when the point is in it
Gap(lo, hi, p) == IF p < lo THEN lo - p ELSE IF p > hi THEN p - hi ELSE 0

\* squared point-to-envelope distance of a stored entry
Dist2(e, pt) ==
    Gap(e.envelope.lower[1], e.envelope.upper[1], pt[1])
        * Gap(e.envelope.lower[1], e.envelope.upper[1], pt[1])
    + Gap(e.envelope.lower[2], e.envelope.upper[2], pt[2])
        * Gap(e.envelope.lower[2], e.envelope.upper[2], pt[2])

\* two closed intervals have a point in common
ClosedOverlap(lo1, hi1, lo2, hi2) == ~(hi1 < lo2 \/ hi2 < lo1)

\* the envelope of a stored entry and a box intersect as closed rectangles
EnvelopeMeets(e, b) ==
    /\ ClosedOverlap(e.envelope.lower[1], e.envelope.upper[1], b.min_x, b.max_x)
    /\ ClosedOverlap(e.envelope.lower[2], e.envelope.upper[2], b.min_y, b.max_y)

\* C2: query_bbox(box) returns exactly the ids of the stored entries whose
\* envelope intersects box as closed rectangles (the brute-force scan).
C2_QueryBBoxIsBruteForce ==
    last.op = "query_bbox" =>
        BagToSet(last.ret) = {e.id : e \in {x \in BagToSet(tree) : EnvelopeMeets(x, last.bbox)}}

\* a query_bbox that returned an entry which only touches the box, and left
\* another entry out
C2_Witness ==
    /\ last.op = "query_bbox"
    /\ \E e \in BagToSet(tree) :
          /\ e.envelope.upper[1] = last.bbox.min_x
          /\ e.envelope.upper[2] = last.bbox.min_y
          /\ e.id \in BagToSet(last.ret)
    /\ \E e \in BagToSet(tree) : e.id \notin BagToSet(last.ret)

\* how many stored entries are strictly closer to pt than distance d (in sixteenths)
CloserThan(pt, d) ==
    LET es == BagSeq(tree)
    IN  Cardinality({i \in 1..Len(es) : 256 * Dist2(es[i], pt) < d * d})

\* C8: query_nearest returns min(k, len()) pairs; each carries the Euclidean
\* distance of a stored entry with that id; the distances do not decrease; and
\* no entry left out is strictly closer than an entry returned.
C8_QueryNearest ==
    last.op = "query_nearest" =>
        LET r == last.ret
        IN  /\ Len(r) = Min2(last.k, len(tree))
            /\ \A i \in 1..Len(r) :
                  \E e \in BagToSet(tree) :
                      /\ e.id = r[i][1]
                      /\ r[i][2] * r[i][2] <= 256 * Dist2(e, last.pt)
                      /\ 256 * Dist2(e, last.pt) < (r[i][2] + 1) * (r[i][2] + 1)
            /\ \A i \in 1..Len(r) : i < Len(r) => r[i][2] <= r[i + 1][2]
            /\ \A i \in 1..Len(r) : CloserThan(last.pt, r[i][2]) <= i - 1

\* a query_nearest that returned fewer entries than the index holds, at a
\* distance that is no whole number, and left a farther entry out
C8_Witness ==
    /\ last.op = "query_nearest"
    /\ Len(last.ret) = 1
    /\ len(tree) = 2
    /\ last.ret[1][2] % 16 # 0
    /\ \E e \in BagToSet(tree) :
          256 * Dist2(e, last.pt) > (last.ret[1][2] + 1) * (last.ret[1][2] + 1)

\* C9: for d >= 0, query_within_distance returns exactly the ids of the stored
\* entries whose point-to-envelope distance is <= d (closed boundary).
C9_WithinDistance ==
    (last.op = "query_within_distance" /\ last.distance >= 0) =>
        BagToSet(last.ret) =
            {e.id : e \in {x \in BagToSet(tree) :
                              Dist2(x, last.pt) <= last.distance * last.distance}}

\* a query that returned an entry at exactly distance d, which lies between
\* sqrt(d) and d, and left another entry out
C9_Witness ==
    /\ last.op = "query_within_distance"
    /\ last.distance >= 2
    /\ \E e \in BagToSet(tree) :
          /\ Dist2(e, last.pt) = last.distance * last.distance
          /\ Dist2(e, last.pt) > last.distance
          /\ e.id \in BagToSet(last.ret)
    /\ \E e \in BagToSet(tree) : e.id \notin BagToSet(last.ret)

\* the entry the index holds for an input pair <<id, Some(bbox)>>
EntryOf(p) ==
    [id |-> p[1],
     envelope |-> [lower |-> <<Unwrap(p[2]).min_x, Unwrap(p[2]).min_y>>,
                   upper |-> <<Unwrap(p[2]).max_x, Unwrap(p[2]).max_y>>]]

\* C10: insert of a geometry without bbox returns NoBoundingBox and leaves the
\* index and len() as they were; bulk_load returns NoBoundingBox and no index
\* when any entry lacks a bbox, wherever it stands, and else an index holding
\* exactly one entry per input pair.
C10_NoBoundingBox ==
    /\ (last.op = "insert" /\ ~last.has_bbox) =>
          last.ret = "NoBoundingBox" /\ last.same /\ len(tree) = last.len_before
    /\ (last.op = "bulk_load" /\ last.none_at # {}) =>
          last.ret = "NoBoundingBox" /\ tree = EmptyBag
    /\ (last.op = "bulk_load" /\ last.none_at = {}) =>
          /\ last.ret = "Ok"
          /\ len(tree) = BagCardinality(last.pairs)
          /\ \A p \in BagToSet(last.pairs) :
                CopiesIn(EntryOf(p), tree) = CopiesIn(p, last.pairs)

\* a bulk_load that failed on an entry that is not the first
C10_Witness ==
    /\ last.op = "bulk_load"
    /\ last.none_at = {2}
    /\ BagCardinality(last.pairs) = 2
    /\ last.ret = "NoBoundingBox"

(***************************************************************************)
(* surrealgis-functions: clustering/mod.rs.  A point of the algorithms is  *)
(* the pair <<x, y>>; Rust's indices 0..n are the indices 1..n of a        *)
(* sequence, cluster ids start at 0 as in the code.                        *)
(***************************************************************************)

\* g.to_geo()?.centroid() of the geo crate, for the kinds of input the callers
\* below draw: a Point is its own centroid, a MultiPoint without points has none
centroid(g) ==
    CASE g.geometry_type.kind = "Point" ->
             Some(<<g.geometry_type.c.x, g.geometry_type.c.y>>)
      [] g.geometry_type.kind = "MultiPoint" /\ Len(g.geometry_type.coords) = 0 -> None

\* clustering::extract_centroids
extract_centroids(geoms) ==
    IF \E i \in 1..Len(geoms) : ~IsSome(centroid(geoms[i]))
    THEN Err("InvalidArgument: Cannot compute centroid for geometry")
    ELSE Ok([i \in 1..Len(geoms) |-> Unwrap(centroid(geoms[i]))])

\* the keys in descending order
RECURSIVE SortedKeys_desc(_)
SortedKeys_desc(S) ==
    IF S = {} THEN <<>>
    ELSE LET most == CHOOSE a \in S : \A b \in S : a >= b
         IN  <<most>> \o SortedKeys_desc(S \ {most})

\* keys.sort()
RECURSIVE SortedKeys(_)
SortedKeys(S) ==
    IF S = {} THEN <<>>
    ELSE LET least == CHOOSE a \in S : \A b \in S : a <= b
         IN  <<least>> \o SortedKeys(S \ {least})

\* the centroids pushed under one cluster id, in input order
RECURSIVE ClusterMembers(_, _, _, _)
ClusterMembers(geoms, assignments, key, i) ==
    IF i > Len(geoms) THEN <<>>
    ELSE (IF assignments[i] = Some(key)
          THEN <<Unwrap(centroid(geoms[i]))>>
          ELSE <<>>) \o ClusterMembers(geoms, assignments, key, i + 1)

\* clustering::build_cluster_result
build_cluster_result(geoms, assignments, srid) ==
    LET clusters == {Unwrap(assignments[i]) :
                        i \in {j \in 1..Len(assignments) : IsSome(assignments[j])}}
        keys == SortedKeys(clusters)
        mp(key) ==
            LET pts == ClusterMembers(geoms, assignments, key, 1)
            IN  from_parts([kind |-> "MultiPoint",
                            coords |-> [i \in 1..Len(pts) |-> Coordinate(pts[i][1], pts[i][2])]],
                           srid)
    IN  IF \E i \in 1..Len(assignments) :
              IsSome(assignments[i]) /\ ~IsSome(centroid(geoms[i]))
        THEN Err("InvalidArgument: Cannot compute centroid for geometry")
        ELSE IF clusters = {} THEN Err("InvalidArgument: No clusters formed")
        ELSE Ok(from_parts([kind |-> "GeometryCollection",
                            geoms |-> [i \in 1..Len(keys) |-> mp(keys[i])]], srid))

\* dx * dx + dy * dy
SquaredDistance(p, q) == (p[1] - q[1]) * (p[1] - q[1]) + (p[2] - q[2]) * (p[2] - q[2])

\* the most geometries a caller hands to a clustering function
MaxPoints == 4

\* the geometries a caller clusters: four points, and the MultiPoint without
\* points that from_geo builds
ClusterGeoms ==
    { point(0, 0, WGS84).val, point(1, 0, WGS84).val, point(2, 0, WGS84).val,
      point(0, 2, WGS84).val, EmptyGeom }

ClusterInputs == SeqsUpTo(ClusterGeoms, MaxPoints)

(***************************************************************************)
(* surrealgis-functions: clustering/st_cluster_dbscan.rs                   *)
(***************************************************************************)

\* region_query that leaves the point itself out of its neighbourhood
region_query_others(points, idx, eps_squared) ==
    SelectSeq([i \in 1..Len(points) |-> i],
              LAMBDA i : i # idx /\ F64Le(SquaredDistance(points[idx], points[i]), eps_squared))

\* region_query
region_query(points, idx, eps_squared) ==
    SelectSeq([i \in 1..Len(points) |-> i],
              LAMBDA i : F64Le(SquaredDistance(points[idx], points[i]), eps_squared))

\* the expansion step without the push of the neighbours of a dense point
PushNew_nothing(queue, nbs, k) == queue

\* for &nb in &j_neighbors { if !queue.contains(&nb) { queue.push(nb) } }
RECURSIVE PushNew(_, _, _)
PushNew(queue, nbs, k) ==
    IF k > Len(nbs) THEN queue
    ELSE PushNew(IF nbs[k] \in SeqRange(queue) THEN queue ELSE Append(queue, nbs[k]),
                 nbs, k + 1)

EpsValues == {-1, 0, 1, 2, INFINITY, -INFINITY, NAN}

MinPointsValues == {0, 1, 2, 3, 4}

\* inputs with two dense points, (0,0) and (2,0), two points around each that
\* only it is close to, and the point (1,0) between them, in three orders
BorderInputs ==
    LET a  == point(0, 0, WGS84).val
        a1 == point(0, 1, WGS84).val
        a2 == point(0, -1, WGS84).val
        b  == point(1, 0, WGS84).val
        c  == point(2, 0, WGS84).val
        c1 == point(2, 1, WGS84).val
        c2 == point(2, -1, WGS84).val
    IN  { <<a, a1, a2, b, c, c1, c2>>, <<b, c, c1, c2, a, a1, a2>>,
          <<c1, a1, b, a, c, a2, c2>> }

\* st_cluster_dbscan returned
DbscanDone(geoms, eps, min_points, result) ==
    [pc |-> "done", geoms |-> geoms, eps |-> eps, min_points |-> min_points,
     result |-> result, absorbed |-> {}, assignments |-> <<>>]

\* st_cluster_dbscan, from the call to the head of the loop over the points
DbscanCall ==
    /\ db.pc = "idle"
    /\ uf.pc = "idle" /\ km.pc = "idle"
    /\ \E geoms \in ClusterInputs \cup BorderInputs, eps \in EpsValues,
          min_points \in MinPointsValues :
          db' = IF Len(geoms) = 0
                THEN DbscanDone(geoms, eps, min_points,
                                Err("InvalidArgument: Empty geometry input"))
                ELSE IF F64Lt(eps, 0)
                THEN DbscanDone(geoms, eps, min_points,
                                Err("InvalidArgument: eps must be non-negative"))
                ELSE IF min_points = 0
                THEN DbscanDone(geoms, eps, min_points,
                                Err("InvalidArgument: min_points must be at least 1"))
                ELSE LET centroids == extract_centroids(geoms)
                     IN  IF ~centroids.ok
                         THEN DbscanDone(geoms, eps, min_points, centroids)
                         ELSE [pc |-> "loop", geoms |-> geoms, eps |-> eps,
                               min_points |-> min_points,
                               points |-> centroids.val,
                               assignments |-> [i \in 1..Len(geoms) |-> None],
                               visited |-> [i \in 1..Len(geoms) |-> FALSE],
                               cluster_id |-> 0, i |-> 1,
                               queue |-> <<>>, qi |-> 1,
                               candidates |-> {}, absorbed |-> {},
                               queried |-> [i \in 1..Len(geoms) |-> 0]]
    /\ UNCHANGED <<ivars, gvars, uf, km>>

\* one pass of `for i in 0..n`, up to the while loop
DbscanVisit ==
    /\ db.pc = "loop"
    /\ db.i <= Len(db.points)
    /\ LET neighbors == region_query(db.points, db.i, F64Mul(db.eps, db.eps))
       IN  db' = IF db.visited[db.i]
                 THEN [db EXCEPT !.i = @ + 1]
                 ELSE IF Len(neighbors) < db.min_points
                 THEN [db EXCEPT !.visited[db.i] = TRUE, !.i = @ + 1,
                                 !.queried[db.i] = @ + 1,
                                 !.candidates = @ \cup {db.i}]
                 ELSE [db EXCEPT !.visited[db.i] = TRUE,
                                 !.queried[db.i] = @ + 1,
                                 !.assignments[db.i] = Some(db.cluster_id),
                                 !.queue = neighbors, !.qi = 1, !.pc = "expand"]
    /\ UNCHANGED <<ivars, gvars, uf, km>>

\* one pass of `while qi < queue.len()`
DbscanExpand ==
    /\ db.pc = "expand"
    /\ db.qi <= Len(db.queue)
    /\ LET j == db.queue[db.qi]
           j_neighbors == region_query(db.points, j, F64Mul(db.eps, db.eps))
           queue == IF ~db.visited[j] /\ Len(j_neighbors) >= db.min_points
                    THEN PushNew(db.queue, j_neighbors, 1)
                    ELSE db.queue
       IN  db' = [db EXCEPT !.qi = @ + 1,
                            !.visited[j] = TRUE,
                            !.queried[j] = IF db.visited[j] THEN @ ELSE @ + 1,
                            !.queue = queue,
                            !.assignments[j] =
                                IF IsSome(@) THEN @ ELSE Some(db.cluster_id),
                            !.absorbed =
                                IF ~IsSome(db.assignments[j]) /\ j \in db.candidates
                                THEN @ \cup {j} ELSE @]
    /\ UNCHANGED <<ivars, gvars, uf, km>>

\* the queue is used up: cluster_id += 1, and on to the next point
DbscanCloseCluster ==
    /\ db.pc = "expand"
    /\ db.qi > Len(db.queue)
    /\ db' = [db EXCEPT !.cluster_id = @ + 1, !.i = @ + 1, !.pc = "loop"]
    /\ UNCHANGED <<ivars, gvars, uf, km>>

\* after the loop: build_cluster_result(geoms, &assignments, srid)
DbscanReturn ==
    /\ db.pc = "loop"
    /\ db.i > Len(db.points)
    /\ db' = [DbscanDone(db.geoms, db.eps, db.min_points,
                         build_cluster_result(db.geoms, db.assignments, db.geoms[1].srid))
                 EXCEPT !.absorbed = db.absorbed, !.assignments = db.assignments]
    /\ UNCHANGED <<ivars, gvars, uf, km>>

DbscanNext ==
    \/ DbscanCall
    \/ DbscanVisit
    \/ DbscanExpand
    \/ DbscanCloseCluster
    \/ DbscanReturn

InitDbscan ==
    /\ db = [pc |-> "idle"]
    /\ uf = [pc |-> "idle"]
    /\ km = [pc |-> "idle"]
    /\ gin = [ctor |-> "none"]
    /\ gout = Err("none")
    /\ gpc = "start"
    /\ tree = EmptyBag
    /\ last = [op |-> "none"]
    /\ removed = {}

SpecDbscan == InitDbscan /\ [][DbscanNext]_vars

(***************************************************************************)
(* surrealgis-functions: clustering/st_cluster_within.rs                   *)
(***************************************************************************)

\* find: the root of i, and parent after the path compression
RECURSIVE find(_, _)
find(parent, i) ==
    IF parent[i] # i
    THEN LET r == find(parent, parent[i])
         IN  [parent |-> [r.parent EXCEPT ![i] = r.root], root |-> r.root]
    ELSE [parent |-> parent, root |-> i]

\* a union that links nothing
union_nothing(parent, rank, a, b) == [parent |-> parent, rank |-> rank]

\* union (by rank)
union(parent, rank, a, b) ==
    LET fa == find(parent, a)
        fb == find(fa.parent, b)
        ra == fa.root
        rb == fb.root
    IN  IF ra = rb THEN [parent |-> fb.parent, rank |-> rank]
        ELSE IF rank[ra] < rank[rb]
        THEN [parent |-> [fb.parent EXCEPT ![ra] = rb], rank |-> rank]
        ELSE IF rank[ra] > rank[rb]
        THEN [parent |-> [fb.parent EXCEPT ![rb] = ra], rank |-> rank]
        ELSE [parent |-> [fb.parent EXCEPT ![rb] = ra],
              rank |-> [rank EXCEPT ![ra] = @ + 1]]

\* the position of root in the order the roots were first met, 0 if it is new
RootIndex(roots, root) ==
    IF root \in SeqRange(roots)
    THEN CHOOSE k \in 1..Len(roots) : roots[k] = root
    ELSE 0

\* the index of the root itself as the cluster id
RECURSIVE AssignRoots_by_root(_, _, _, _)
AssignRoots_by_root(parent, i, roots, assignments) ==
    IF i > Len(parent) THEN assignments
    ELSE LET f == find(parent, i)
         IN  AssignRoots_by_root(f.parent, i + 1, roots,
                                 Append(assignments, Some(f.root - 1)))

\* (0..n).map(|i| { let root = find(..); cluster_map.entry(root).or_insert_with(next_id++) })
RECURSIVE AssignRoots(_, _, _, _)
AssignRoots(parent, i, roots, assignments) ==
    IF i > Len(parent) THEN assignments
    ELSE LET f == find(parent, i)
             k == RootIndex(roots, f.root)
         IN  IF k = 0
             THEN AssignRoots(f.parent, i + 1, Append(roots, f.root),
                              Append(assignments, Some(Len(roots))))
             ELSE AssignRoots(f.parent, i + 1, roots, Append(assignments, Some(k - 1)))

DistanceValues == {-1, 0, 1, 2, INFINITY, -INFINITY, NAN}

\* st_cluster_within returned
WithinDone(geoms, distance, result) ==
    [pc |-> "done", geoms |-> geoms, distance |-> distance, result |-> result,
     assignments |-> <<>>]

\* st_cluster_within, from the call to the head of the loops over the pairs
WithinCall ==
    /\ uf.pc = "idle"
    /\ db.pc = "idle" /\ km.pc = "idle"
    /\ \E geoms \in ClusterInputs, distance \in DistanceValues :
          uf' = IF Len(geoms) = 0
                THEN WithinDone(geoms, distance, Err("InvalidArgument: Empty geometry input"))
                ELSE IF F64Lt(distance, 0)
                THEN WithinDone(geoms, distance,
                                Err("InvalidArgument: distance must be non-negative"))
                ELSE LET centroids == extract_centroids(geoms)
                     IN  IF ~centroids.ok
                         THEN WithinDone(geoms, distance, centroids)
                         ELSE [pc |-> "pairs", geoms |-> geoms, distance |-> distance,
                               points |-> centroids.val,
                               parent |-> [i \in 1..Len(geoms) |-> i],
                               rank |-> [i \in 1..Len(geoms) |-> 0],
                               i |-> 1, j |-> 2]
    /\ UNCHANGED <<ivars, gvars, db, km>>

\* one pass of `for j in (i + 1)..n`, and on to the next pair
WithinPair ==
    /\ uf.pc = "pairs"
    /\ uf.j <= Len(uf.points)
    /\ LET u == IF F64Le(SquaredDistance(uf.points[uf.i], uf.points[uf.j]),
                        F64Mul(uf.distance, uf.distance))
                THEN union(uf.parent, uf.rank, uf.i, uf.j)
                ELSE [parent |-> uf.parent, rank |-> uf.rank]
           last_j == uf.j = Len(uf.points)
       IN  uf' = [uf EXCEPT !.parent = u.parent, !.rank = u.rank,
                            !.i = IF last_j THEN @ + 1 ELSE @,
                            !.j = IF last_j THEN uf.i + 2 ELSE @ + 1]
    /\ UNCHANGED <<ivars, gvars, db, km>>

\* after the loops: the assignments from the roots, and build_cluster_result
WithinReturn ==
    /\ uf.pc = "pairs"
    /\ uf.j > Len(uf.points)
    /\ LET assignments == AssignRoots(uf.parent, 1, <<>>, <<>>)
       IN  uf' = [WithinDone(uf.geoms, uf.distance,
                             build_cluster_result(uf.geoms, assignments,
                                                  uf.geoms[1].srid))
                     EXCEPT !.assignments = assignments]
    /\ UNCHANGED <<ivars, gvars, db, km>>

WithinNext ==
    \/ WithinCall
    \/ WithinPair
    \/ WithinReturn

InitWithin ==
    /\ uf = [pc |-> "idle"]
    /\ db = [pc |-> "idle"]
    /\ km = [pc |-> "idle"]
    /\ gin = [ctor |-> "none"]
    /\ gout = Err("none")
    /\ gpc = "start"
    /\ tree = EmptyBag
    /\ last = [op |-> "none"]
    /\ removed = {}

SpecWithin == InitWithin /\ [][WithinNext]_vars

(***************************************************************************)
(* surrealgis-functions: clustering/st_cluster_kmeans.rs.  A center is the *)
(* triple <<sx, sy, n>> that stands for the point (sx / n, sy / n): the    *)
(* seeds have n = 1, and the update step stores the sums and the count of  *)
(* the members.  Distances to centers are compared as exact fractions.     *)
(***************************************************************************)

\* the cap of Lloyd's iteration: `for _ in 0..100`
MaxIterations == 100

\* the number of passes of the seeding loop `for _ in 1..k`
seed_rounds(k) == k - 1

\* centers.iter().map(squared distance to p).fold(f64::MAX, f64::min)
RECURSIVE NearestSeedDistance(_, _, _, _)
NearestSeedDistance(p, centers, c, acc) ==
    IF c > Len(centers) THEN acc
    ELSE NearestSeedDistance(p, centers, c + 1,
             Min2(acc, SquaredDistance(p, <<centers[c][1], centers[c][2]>>)))

\* distances.iter().sum() over the first i distances
RECURSIVE CumSum(_, _)
CumSum(distances, i) == IF i = 0 THEN 0 ELSE CumSum(distances, i - 1) + distances[i]

\* the first i with cumsum >= threshold, for the threshold threshold2 / 2
Roulette(distances, threshold2) ==
    CHOOSE i \in 1..Len(distances) :
        /\ 2 * CumSum(distances, i) >= threshold2
        /\ \A h \in 1..(i - 1) : 2 * CumSum(distances, h) < threshold2

\* the numerator of the squared distance of p to a center, over n * n
CenterDistance(p, c) ==
    (p[1] * c[3] - c[1]) * (p[1] * c[3] - c[1]) + (p[2] * c[3] - c[2]) * (p[2] * c[3] - c[2])

\* da < db for the distances of p to the centers a and b
Closer(p, a, b) == CenterDistance(p, a) * b[3] * b[3] < CenterDistance(p, b) * a[3] * a[3]

\* centers.iter().enumerate().min_by(..).unwrap().0: the first of the nearest centers
nearest(p, centers) ==
    (CHOOSE i \in 1..Len(centers) :
        /\ \A h \in 1..(i - 1) : Closer(p, centers[i], centers[h])
        /\ \A h \in (i + 1)..Len(centers) : ~Closer(p, centers[h], centers[i])) - 1

\* the update step for one center
\* a center without members moved to the origin
UpdatedCenter_reset(points, assignments, ci, center) ==
    LET members == {i \in 1..Len(points) : assignments[i] = ci}
        Sum[S \in SUBSET members] ==
            IF S = {} THEN <<0, 0>>
            ELSE LET i == CHOOSE m \in S : TRUE
                 IN  <<Sum[S \ {i}][1] + points[i][1], Sum[S \ {i}][2] + points[i][2]>>
    IN  IF members = {} THEN <<0, 0, 1>>
        ELSE <<Sum[members][1], Sum[members][2], Cardinality(members)>>

UpdatedCenter(points, assignments, ci, center) ==
    LET members == {i \in 1..Len(points) : assignments[i] = ci}
        Sum[S \in SUBSET members] ==
            IF S = {} THEN <<0, 0>>
            ELSE LET i == CHOOSE m \in S : TRUE
                 IN  <<Sum[S \ {i}][1] + points[i][1], Sum[S \ {i}][2] + points[i][2]>>
    IN  IF members = {} THEN center
        ELSE <<Sum[members][1], Sum[members][2], Cardinality(members)>>

KValues == {0, 1, 2, 3}

\* st_cluster_kmeans returned
KmeansDone(geoms, k, result) ==
    [pc |-> "done", geoms |-> geoms, k |-> k, result |-> result]

\* st_cluster_kmeans, from the call to the first center
KmeansCall ==
    /\ km.pc = "idle"
    /\ db.pc = "idle" /\ uf.pc = "idle"
    /\ \E geoms \in ClusterInputs, k \in KValues :
          IF Len(geoms) = 0
          THEN km' = KmeansDone(geoms, k, Err("InvalidArgument: Empty geometry input"))
          ELSE IF k = 0
          THEN km' = KmeansDone(geoms, k, Err("InvalidArgument: k must be at least 1"))
          ELSE LET centroids == extract_centroids(geoms)
               IN  IF ~centroids.ok
                   THEN km' = KmeansDone(geoms, k, centroids)
                   ELSE \E first \in 1..Len(geoms) :
                           km' = [pc |-> IF seed_rounds(Min2(k, Len(geoms))) > 0
                                         THEN "seed" ELSE "lloyd",
                                  geoms |-> geoms, k |-> k,
                                  kk |-> Min2(k, Len(geoms)),
                                  points |-> centroids.val,
                                  centers |-> <<<<centroids.val[first][1],
                                                  centroids.val[first][2], 1>>>>,
                                  round |-> 0,
                                  assignments |-> [i \in 1..Len(geoms) |-> 0],
                                  iteration |-> 0, converged |-> FALSE]
    /\ UNCHANGED <<ivars, gvars, db, uf>>

\* one pass of the seeding loop
KmeansSeed ==
    /\ km.pc = "seed"
    /\ LET distances == [i \in 1..Len(km.points) |->
                            NearestSeedDistance(km.points[i], km.centers, 1, F64_MAX)]
           total == CumSum(distances, Len(distances))
       IN  IF total <= 0
           THEN km' = [km EXCEPT !.pc = "lloyd"]
           ELSE \E threshold2 \in 0..(2 * total - 1) :
                   LET i == Roulette(distances, threshold2)
                   IN  km' = [km EXCEPT
                                 !.centers = Append(@, <<km.points[i][1], km.points[i][2], 1>>),
                                 !.round = @ + 1,
                                 !.pc = IF km.round + 1 >= seed_rounds(km.kk)
                                        THEN "lloyd" ELSE "seed"]
    /\ UNCHANGED <<ivars, gvars, db, uf>>

\* one pass of Lloyd's iteration: the assignment step, and unless nothing
\* changed, the update step
KmeansIterate ==
    /\ km.pc = "lloyd"
    /\ ~km.converged
    /\ km.iteration < MaxIterations
    /\ LET assignments == [i \in 1..Len(km.points) |-> nearest(km.points[i], km.centers)]
       IN  IF assignments = km.assignments
           THEN km' = [km EXCEPT !.converged = TRUE]
           ELSE km' = [km EXCEPT
                          !.assignments = assignments,
                          !.centers = [c \in 1..Len(km.centers) |->
                                          UpdatedCenter(km.points, assignments, c - 1,
                                                        km.centers[c])],
                          !.iteration = @ + 1]
    /\ UNCHANGED <<ivars, gvars, db, uf>>

\* after the iteration: every assignment is Some, and build_cluster_result
KmeansReturn ==
    /\ km.pc = "lloyd"
    /\ km.converged \/ km.iteration >= MaxIterations
    /\ km' = KmeansDone(km.geoms, km.k,
                        build_cluster_result(km.geoms,
                                             [i \in 1..Len(km.points) |-> Some(km.assignments[i])],
                                             km.geoms[1].srid))
    /\ UNCHANGED <<ivars, gvars, db, uf>>

KmeansNext ==
    \/ KmeansCall
    \/ KmeansSeed
    \/ KmeansIterate
    \/ KmeansReturn

InitKmeans ==
    /\ km = [pc |-> "idle"]
    /\ db = [pc |-> "idle"]
    /\ uf = [pc |-> "idle"]
    /\ gin = [ctor |-> "none"]
    /\ gout = Err("none")
    /\ gpc = "start"
    /\ tree = EmptyBag
    /\ last = [op |-> "none"]
    /\ removed = {}

SpecKmeans == InitKmeans /\ [][KmeansNext]_vars

(***************************************************************************)
(* Clustering claims                                                       *)
(***************************************************************************)

\* the points of the MultiPoints of a clustering result, cluster by cluster
ResultClusters(result) ==
    [c \in 1..Len(result.val.geometry_type.geoms) |->
        LET cs == result.val.geometry_type.geoms[c].geometry_type.coords
        IN  [i \in 1..Len(cs) |-> <<cs[i].x, cs[i].y>>]]

ResultPoints(result) == SeqRange(Flatten(ResultClusters(result)))

\* the eps-neighbourhood of input i, the input itself included
Neighbourhood(pts, eps, i) ==
    {j \in 1..Len(pts) : SquaredDistance(pts[i], pts[j]) <= eps * eps}

Dense(pts, eps, min_points, i) == Cardinality(Neighbourhood(pts, eps, i)) >= min_points

Noise(pts, eps, min_points, i) ==
    /\ ~Dense(pts, eps, min_points, i)
    /\ \A j \in Neighbourhood(pts, eps, i) : ~Dense(pts, eps, min_points, j)

\* C3: for eps >= 0, min_points >= 1 and a non-empty input, an input is left
\* out of the result of st_cluster_dbscan iff its eps-neighbourhood (itself
\* included) has fewer than min_points members and it is within eps of no dense
\* point, whatever the order of the inputs; the result holds each other input
\* once; and when every input is noise the call returns an error.
C3_DbscanNoise ==
    (/\ db.pc = "done"
     /\ Len(db.geoms) > 0 /\ F64Le(0, db.eps) /\ db.min_points >= 1
     /\ extract_centroids(db.geoms).ok) =>
        LET pts == extract_centroids(db.geoms).val
            noise == {i \in 1..Len(pts) : Noise(pts, db.eps, db.min_points, i)}
        IN  IF noise = 1..Len(pts)
            THEN ~db.result.ok
            ELSE /\ db.result.ok
                 /\ \A i \in 1..Len(pts) :
                       (pts[i] \notin ResultPoints(db.result)) <=> i \in noise
                 /\ Len(Flatten(ResultClusters(db.result))) = Len(pts) - Cardinality(noise)

\* a call that first passed an input over as candidate noise and later took
\* it into a cluster as a border point, and left another input out as noise
C3_Witness ==
    /\ db.pc = "done"
    /\ db.result.ok
    /\ db.absorbed # {}
    /\ \E i \in 1..Len(db.geoms) :
          extract_centroids(db.geoms).val[i] \notin ResultPoints(db.result)

\* the inputs a chain of steps of length <= d links to the inputs of S
RECURSIVE Component(_, _, _)
Component(pts, d, S) ==
    LET T == S \cup {j \in 1..Len(pts) :
                        \E i \in S : SquaredDistance(pts[i], pts[j]) <= d * d}
    IN  IF T = S THEN S ELSE Component(pts, d, T)

\* the clusters of a result that hold the centroid of input i
ClustersOf(result, pts, i) ==
    {c \in 1..Len(ResultClusters(result)) : pts[i] \in SeqRange(ResultClusters(result)[c])}

\* the result is the partition of the inputs into the classes of the closure
IsClosurePartition(result, pts, d) ==
    /\ Len(Flatten(ResultClusters(result))) = Len(pts)
    /\ \A i \in 1..Len(pts) : Cardinality(ClustersOf(result, pts, i)) = 1
    /\ \A i, j \in 1..Len(pts) :
          (ClustersOf(result, pts, i) = ClustersOf(result, pts, j))
              <=> j \in Component(pts, d, {i})

\* C4: for a non-empty input and distance >= 0 st_cluster_within never
\* fails, every input is in exactly one cluster, and two inputs share a
\* cluster iff a chain of inputs with consecutive centroids at distance <=
\* distance connects them.
C4_AsStated ==
    (uf.pc = "done" /\ Len(uf.geoms) > 0 /\ F64Le(0, uf.distance)) =>
        /\ uf.result.ok
        /\ IsClosurePartition(uf.result, extract_centroids(uf.geoms).val, uf.distance)

\* C4, for the inputs that all have a centroid: for a non-empty input and
\* distance >= 0, st_cluster_within succeeds, every input is in exactly one
\* cluster, and two inputs share a cluster iff a chain of inputs with
\* consecutive centroids at distance <= distance connects them.
C4_WithinClosure ==
    (/\ uf.pc = "done"
     /\ Len(uf.geoms) > 0 /\ F64Le(0, uf.distance)
     /\ \A i \in 1..Len(uf.geoms) : IsSome(centroid(uf.geoms[i]))) =>
        /\ uf.result.ok
        /\ IsClosurePartition(uf.result,
                              [i \in 1..Len(uf.geoms) |-> Unwrap(centroid(uf.geoms[i]))],
                              uf.distance)

\* a result with a cluster that joins two inputs farther apart than distance,
\* and a second cluster
C4_Witness ==
    /\ uf.pc = "done"
    /\ uf.result.ok
    /\ Len(ResultClusters(uf.result)) >= 2
    /\ \E c \in 1..Len(ResultClusters(uf.result)) :
          \E p, q \in SeqRange(ResultClusters(uf.result)[c]) :
              SquaredDistance(p, q) > uf.distance * uf.distance

\* how often the point p stands in the sequence ps
Occurrences(ps, p) == Cardinality({i \in 1..Len(ps) : ps[i] = p})

\* every input is in the result once, in at most min(k, n) clusters, one if k = 1
IsKPartition(result, pts, k) ==
    /\ Len(Flatten(ResultClusters(result))) = Len(pts)
    /\ \A i \in 1..Len(pts) :
          Occurrences(Flatten(ResultClusters(result)), pts[i]) = Occurrences(pts, pts[i])
    /\ \A c \in 1..Len(ResultClusters(result)) : Len(ResultClusters(result)[c]) >= 1
    /\ Len(ResultClusters(result)) <= Min2(k, Len(pts))
    /\ k = 1 => Len(ResultClusters(result)) = 1

\* C7: for every non-empty input and k >= 1, whatever the seeding
\* draws, st_cluster_kmeans succeeds, the sizes of the result MultiPoints sum to
\* the input count with no input dropped, there are at most min(k, n) clusters,
\* and k = 1 gives a single cluster with all inputs.
C7_AsStated ==
    (km.pc = "done" /\ Len(km.geoms) > 0 /\ km.k >= 1) =>
        /\ km.result.ok
        /\ IsKPartition(km.result, extract_centroids(km.geoms).val, km.k)

\* C7, for the inputs that all have a centroid: for every non-empty input
\* and k >= 1, whatever the seeding draws, st_cluster_kmeans succeeds,
\* the sizes of the result MultiPoints sum to the input count with no input
\* dropped, there are at most min(k, n) clusters, and k = 1 gives a single
\* cluster with all inputs.
C7_KmeansAssignsAll ==
    (/\ km.pc = "done"
     /\ Len(km.geoms) > 0 /\ km.k >= 1
     /\ \A i \in 1..Len(km.geoms) : IsSome(centroid(km.geoms[i]))) =>
        /\ km.result.ok
        /\ IsKPartition(km.result,
                        [i \in 1..Len(km.geoms) |-> Unwrap(centroid(km.geoms[i]))], km.k)

\* a call with k above the input count that returned as many clusters as inputs
C7_Witness ==
    /\ km.pc = "done"
    /\ km.result.ok
    /\ km.k > Len(km.geoms)
    /\ Len(km.geoms) >= 2
    /\ Len(ResultClusters(km.result)) = Len(km.geoms)

\* the errors of the parameter checks at the head of the three functions
ParameterErrors ==
    { "InvalidArgument: Empty geometry input",
      "InvalidArgument: eps must be non-negative",
      "InvalidArgument: min_points must be at least 1",
      "InvalidArgument: distance must be non-negative",
      "InvalidArgument: k must be at least 1" }

\* C11: each of st_cluster_dbscan, st_cluster_within and st_cluster_kmeans,
\* called with an empty input, a negative or non-finite eps or distance, or a
\* zero min_points or k, returns the error of a parameter check and never
\* reaches centroid extraction or a clustering step.
C11_RejectsBadParameters ==
    /\ (/\ db.pc # "idle"
        /\ \/ Len(db.geoms) = 0
           \/ F64Lt(db.eps, 0)
           \/ ~is_finite(db.eps)
           \/ db.min_points = 0) =>
          db.pc = "done" /\ ~db.result.ok /\ db.result.err \in ParameterErrors
    /\ (/\ uf.pc # "idle"
        /\ \/ Len(uf.geoms) = 0
           \/ F64Lt(uf.distance, 0)
           \/ ~is_finite(uf.distance)) =>
          uf.pc = "done" /\ ~uf.result.ok /\ uf.result.err \in ParameterErrors
    /\ (/\ km.pc # "idle"
        /\ (Len(km.geoms) = 0 \/ km.k = 0)) =>
          km.pc = "done" /\ ~km.result.ok /\ km.result.err \in ParameterErrors

(***************************************************************************)
(* Bounding boxes and the geo_types conversion, called with raw f64 input. *)
(***************************************************************************)

\* BoundingBox::new
BoundingBoxNew(min_x, min_y, max_x, max_y) ==
    IF F64Lt(max_x, min_x) THEN Err("InvalidGeometry: min_x must be <= max_x")
    ELSE IF F64Lt(max_y, min_y)
         THEN Err("InvalidGeometry: min_y must be <= max_y")
         ELSE Ok(BoundingBox(min_x, min_y, max_x, max_y))

\* Result::expect: the value, or a panic with the message
Expect(r, msg) ==
    IF r.ok THEN [panic |-> FALSE, val |-> r.val]
    ELSE [panic |-> TRUE, msg |-> msg]

\* bbox_filter::expand_bbox
expand_bbox(bbox, distance) ==
    Expect(BoundingBoxNew(F64Sub(bbox.min_x, distance),
                          F64Sub(bbox.min_y, distance),
                          F64Add(bbox.max_x, distance),
                          F64Add(bbox.max_y, distance)),
           "Expanding a valid bbox by a non-negative distance should produce a valid bbox")

\* Coordinate::new, with the two validate_finite checks
CoordinateNew(x, y) ==
    IF ~is_finite(x) THEN Err("InvalidCoordinate: x must be finite")
    ELSE IF ~is_finite(y) THEN Err("InvalidCoordinate: y must be finite")
    ELSE Ok(Coordinate(x, y))

\* geo_linestring_to_coords: Coordinate::new over the points <<x, y>> of ls,
\* collected into the first error or the vector of all coordinates
geo_linestring_to_coords(ls) ==
    LET rs  == [i \in 1..Len(ls) |-> CoordinateNew(ls[i][1], ls[i][2])]
        bad == {i \in 1..Len(ls) : ~rs[i].ok}
    IN  IF bad # {}
        THEN rs[CHOOSE i \in bad : \A j \in bad : i <= j]
        ELSE Ok([i \in 1..Len(ls) |-> rs[i].val])

\* the collect() of geo_linestring_to_coords over a vector of line strings
CollectLines(lss) ==
    LET rs  == [i \in 1..Len(lss) |-> geo_linestring_to_coords(lss[i])]
        bad == {i \in 1..Len(lss) : ~rs[i].ok}
    IN  IF bad # {}
        THEN rs[CHOOSE i \in bad : \A j \in bad : i <= j]
        ELSE Ok([i \in 1..Len(lss) |-> rs[i].val])

\* SurrealGeometry::from_geo, for the geo_types variants Point, LineString,
\* Polygon, MultiPoint, MultiLineString and Triangle: no structural
\* validation, only Coordinate::new on every point
from_geo(geom, srid) ==
    LET gt ==
          CASE geom.kind = "Point" ->
                 LET c == CoordinateNew(geom.p[1], geom.p[2])
                 IN  IF c.ok THEN Ok([kind |-> "Point", c |-> c.val]) ELSE c
            [] geom.kind = "LineString" ->
                 LET cs == geo_linestring_to_coords(geom.pts)
                 IN  IF cs.ok THEN Ok([kind |-> "LineString", coords |-> cs.val])
                     ELSE cs
            [] geom.kind = "Polygon" ->
                 LET ext == geo_linestring_to_coords(geom.exterior)
                     hs  == CollectLines(geom.interiors)
                 IN  IF ~ext.ok THEN ext
                     ELSE IF ~hs.ok THEN hs
                     ELSE Ok([kind |-> "Polygon", exterior |-> ext.val,
                              holes |-> hs.val])
            [] geom.kind = "MultiPoint" ->
                 LET cs == geo_linestring_to_coords(geom.pts)
                 IN  IF cs.ok THEN Ok([kind |-> "MultiPoint", coords |-> cs.val])
                     ELSE cs
            [] geom.kind = "MultiLineString" ->
                 LET ls == CollectLines(geom.lines)
                 IN  IF ls.ok THEN Ok([kind |-> "MultiLineString",
                                       lines |-> ls.val])
                     ELSE ls
            [] geom.kind = "Triangle" ->
                 LET cs == geo_linestring_to_coords(
                               <<geom.a, geom.b, geom.c, geom.a>>)
                 IN  IF cs.ok THEN Ok([kind |-> "Polygon", exterior |-> cs.val,
                                       holes |-> <<>>])
                     ELSE cs
    IN  IF gt.ok THEN Ok(from_parts(gt.val, srid)) ELSE gt

\* impl From<geo_types::Geometry<f64>> for SurrealGeometry (Srid::DEFAULT is
\* 4326)
From(geom) ==
    Expect(from_geo(geom, WGS84),
           "Valid geo_types::Geometry should convert without error")

\* longest point vector of a geo_types geometry
MaxGeoLen == 2

\* f64 values a caller hands over in a geo_types point
GeoValues == {0, 1, NAN, INFINITY}

GeoPoints == GeoValues \X GeoValues

GeoLines == SeqsUpTo({<<0, 0>>, <<1, 0>>, <<1, 1>>, <<NAN, 0>>, <<0, -INFINITY>>},
                     MaxGeoLen)

GeoGeoms ==
    {[kind |-> "Point", p |-> p] : p \in GeoPoints}
    \cup {[kind |-> k, pts |-> l] : k \in {"LineString", "MultiPoint"},
                                    l \in GeoLines}
    \cup {[kind |-> "Polygon", exterior |-> l, interiors |-> hs] :
             l \in GeoLines, hs \in SeqsUpTo({<<>>, <<<<NAN, 0>>>>}, 1)}
    \cup {[kind |-> "MultiLineString", lines |-> ls] :
             ls \in SeqsUpTo({<<<<0, 0>>>>, <<<<0, 0>>, <<1, 1>>>>,
                              <<<<0, INFINITY>>>>}, 2)}
    \cup {[kind |-> "Triangle", a |-> <<0, 0>>, b |-> b, c |-> c] :
             b \in GeoPoints, c \in {<<0, 1>>, <<NAN, NAN>>}}

\* corner values of the boxes handed to BoundingBox::new and expand_bbox
BoxValues == {0, 1, 2}

ValidBoxes ==
    {BoundingBox(a, b, c, d) : a \in BoxValues, b \in BoxValues,
                               c \in BoxValues, d \in BoxValues}
    \cap {b \in [min_x : BoxValues, min_y : BoxValues,
                 max_x : BoxValues, max_y : BoxValues] :
             BoundingBoxNew(b.min_x, b.min_y, b.max_x, b.max_y).ok}

ExpandDistances == {-2, -1, 0, 1, INFINITY, -INFINITY, NAN}

CallBoundingBoxNew ==
    /\ last.op = "none"
    /\ \E a \in BoxValues \cup {NAN}, b \in BoxValues,
          c \in BoxValues \cup {NAN}, d \in BoxValues :
          last' = [op |-> "bbox_new", args |-> <<a, b, c, d>>,
                   ret |-> BoundingBoxNew(a, b, c, d)]
    /\ UNCHANGED <<tree, removed, gvars, db, uf, km>>

CallFromCoordinates ==
    /\ last.op = "none"
    /\ \E cs \in CoordSeqs \cup SeqsUpTo({c10, Coordinate(F64_MAX, -F64_MAX)}, 2) :
          last' = [op |-> "from_coordinates", coords |-> cs,
                   ret |-> from_coordinates(cs)]
    /\ UNCHANGED <<tree, removed, gvars, db, uf, km>>

CallExpandBBox ==
    /\ last.op = "none"
    /\ \E b \in ValidBoxes, d \in ExpandDistances :
          last' = [op |-> "expand_bbox", bbox |-> b, distance |-> d,
                   ret |-> expand_bbox(b, d)]
    /\ UNCHANGED <<tree, removed, gvars, db, uf, km>>

CallFromGeo ==
    /\ last.op = "none"
    /\ \E g \in GeoGeoms :
          last' = [op |-> "from_geo", geom |-> g, ret |-> from_geo(g, WGS84)]
    /\ UNCHANGED <<tree, removed, gvars, db, uf, km>>

CallFrom ==
    /\ last.op = "none"
    /\ \E g \in GeoGeoms :
          last' = [op |-> "from", geom |-> g, ret |-> From(g)]
    /\ UNCHANGED <<tree, removed, gvars, db, uf, km>>

\* longest input handed to build_cluster_result
MaxAssigned == 3

\* build_cluster_result as its three callers call it: after extract_centroids
\* succeeded on geoms, with one assignment per input and the srid of geoms[0]
CallBuildClusterResult ==
    /\ last.op = "none"
    /\ \E geoms \in SeqsUpTo({point(0, 0, WGS84).val, point(1, 0, WGS84).val,
                              point(1, 0, WEB_MERCATOR).val,
                              point(0, 2, WEB_MERCATOR).val}, MaxAssigned) :
          /\ Len(geoms) >= 1
          /\ \E assignments \in [1..Len(geoms) -> {None, Some(0), Some(1), Some(2)}] :
                last' = [op |-> "build_cluster_result", geoms |-> geoms,
                         assignments |-> assignments,
                         ret |-> build_cluster_result(geoms, assignments,
                                                      geoms[1].srid)]
    /\ UNCHANGED <<tree, removed, gvars, db, uf, km>>

\* bbox_intersects with open intervals
bbox_intersects_open(a, b) ==
    /\ a.min_x < b.max_x
    /\ a.max_x > b.min_x
    /\ a.min_y < b.max_y
    /\ a.max_y > b.min_y

\* bbox_filter::bbox_intersects
bbox_intersects(a, b) ==
    /\ a.min_x <= b.max_x
    /\ a.max_x >= b.min_x
    /\ a.min_y <= b.max_y
    /\ a.max_y >= b.min_y

\* bbox_filter::bbox_pre_filter
bbox_pre_filter(a, b) == bbox_intersects(a, b)

\* relationships::predicates::bbox_pre_filter, on two geometries
predicates_bbox_pre_filter(a, b) ==
    IF IsSome(a.bbox) /\ IsSome(b.bbox) /\ ~intersects(Unwrap(a.bbox), Unwrap(b.bbox))
    THEN Some(FALSE)
    ELSE None

\* relationships::predicates::bbox_pre_filter_disjoint
bbox_pre_filter_disjoint(a, b) ==
    IF IsSome(a.bbox) /\ IsSome(b.bbox) /\ ~intersects(Unwrap(a.bbox), Unwrap(b.bbox))
    THEN Some(TRUE)
    ELSE None

\* bbox_pre_filter(a, b), bbox_pre_filter(b, a) and a.intersects(b) on two
\* valid boxes
CallPreFilter ==
    /\ last.op = "none"
    /\ \E a \in ValidBoxes, b \in ValidBoxes :
          last' = [op |-> "bbox_pre_filter", a |-> a, b |-> b,
                   ret |-> bbox_pre_filter(a, b), rev |-> bbox_pre_filter(b, a),
                   intersects |-> intersects(a, b)]
    /\ UNCHANGED <<tree, removed, gvars, db, uf, km>>

\* the pre-filters of the relationship predicates on two geometries
CallPredicatesPreFilter ==
    /\ last.op = "none"
    /\ \E a \in IndexGeoms, b \in IndexGeoms :
          last' = [op |-> "predicates_pre_filter", a |-> a, b |-> b,
                   ret |-> predicates_bbox_pre_filter(a, b),
                   disjoint |-> bbox_pre_filter_disjoint(a, b)]
    /\ UNCHANGED <<tree, removed, gvars, db, uf, km>>

\* the boxes a caller can hold: the fields are public, so min <= max is not
\* granted
AnyBoxes ==
    [min_x : BoxValues, min_y : BoxValues, max_x : BoxValues, max_y : BoxValues]

\* a.expand(b) and b.expand(a), a.contains(b) and b.contains(a)
CallExpand ==
    /\ last.op = "none"
    /\ \E a \in AnyBoxes, b \in AnyBoxes :
          last' = [op |-> "expand", a |-> a, b |-> b,
                   ret |-> expand(a, b), rev |-> expand(b, a),
                   a_in_b |-> contains(b, a), b_in_a |-> contains(a, b)]
    /\ UNCHANGED <<tree, removed, gvars, db, uf, km>>

CallsNext ==
    \/ CallExpand
    \/ CallPreFilter
    \/ CallPredicatesPreFilter
    \/ CallBuildClusterResult
    \/ CallBoundingBoxNew
    \/ CallFromCoordinates
    \/ CallExpandBBox
    \/ CallFromGeo
    \/ CallFrom

InitCalls ==
    /\ gin = [ctor |-> "none"]
    /\ gout = Err("none")
    /\ gpc = "start"
    /\ tree = EmptyBag
    /\ last = [op |-> "none"]
    /\ removed = {}
    /\ db = [pc |-> "idle"]
    /\ uf = [pc |-> "idle"]
    /\ km = [pc |-> "idle"]

SpecCalls == InitCalls /\ [][CallsNext]_vars

\* C12: no operation panics on public input: expand_bbox returns a box for
\* every valid box and every finite distance, negative ones included, and the
\* From conversion of a geo_types geometry never aborts.
C12_NoPanic ==
    /\ (last.op = "expand_bbox" /\ is_finite(last.distance)) =>
          ~last.ret.panic
    /\ last.op = "from" => ~last.ret.panic

\* first == last on Coordinate: the derived PartialEq, over x, y, z and m
RingClosed(ring) == Len(ring) >= 1 /\ ring[1] = ring[Len(ring)]

\* the rings handed to the last polygon or multi_polygon call
InputRings ==
    CASE gin.ctor = "polygon" ->
           {gin.exterior} \cup {gin.holes[i] : i \in 1..Len(gin.holes)}
      [] gin.ctor = "multi_polygon" ->
           UNION {{gin.polygons[i].exterior}
                  \cup {gin.polygons[i].holes[j] :
                           j \in 1..Len(gin.polygons[i].holes)} :
                  i \in 1..Len(gin.polygons)}
      [] OTHER -> {}

\* C13: polygon and multi_polygon construction rejects every input with a ring,
\* exterior or hole, whose first coordinate differs from its last, and accepts
\* every input whose rings all have at least 4 points and first == last.
C13_RingClosureExact ==
    (gpc = "built" /\ gin.ctor \in {"polygon", "multi_polygon"}) =>
        /\ (\E r \in InputRings : Len(r) >= 1 /\ ~RingClosed(r)) => ~gout.ok
        /\ (/\ InputRings # {}
            /\ \A r \in InputRings : Len(r) >= 4 /\ RingClosed(r)) => gout.ok

\* the dense inputs, and the dense inputs a chain of dense inputs, each within
\* eps of the next, links to the inputs of S
DenseSet(pts, eps, min_points) ==
    {i \in 1..Len(pts) : Dense(pts, eps, min_points, i)}

RECURSIVE DenseChain(_, _, _, _)
DenseChain(pts, eps, D, S) ==
    LET T == S \cup {j \in D : \E i \in S : j \in Neighbourhood(pts, eps, i)}
    IN  IF T = S THEN S ELSE DenseChain(pts, eps, D, T)

\* C14: in a successful result of st_cluster_dbscan two dense inputs share a
\* cluster iff a chain of dense inputs, each within eps of the next, links
\* them; every non-dense input within eps of a dense one is in exactly one
\* cluster, and that cluster holds a dense input within eps of it; and when
\* every input is dense and the inputs fall into groups of mutually close
\* inputs farther than eps from each other, the clusters are those groups and
\* no input is lost.
C14_DbscanClusters ==
    (db.pc = "done" /\ db.result.ok /\ F64Le(0, db.eps)) =>
        LET pts   == extract_centroids(db.geoms).val
            D     == DenseSet(pts, db.eps, db.min_points)
            cl(i) == ClustersOf(db.result, pts, i)
        IN  /\ \A i, j \in D :
                  (cl(i) \cap cl(j) # {}) <=> j \in DenseChain(pts, db.eps, D, {i})
            /\ \A i \in (1..Len(pts)) \ D :
                  (Neighbourhood(pts, db.eps, i) \cap D # {}) =>
                      /\ Cardinality(cl(i)) = 1
                      /\ \E j \in Neighbourhood(pts, db.eps, i) \cap D :
                            cl(i) \subseteq cl(j)
            /\ (/\ D = 1..Len(pts)
                /\ \A i \in 1..Len(pts) :
                      Component(pts, db.eps, {i}) = Neighbourhood(pts, db.eps, i)) =>
                   /\ Len(Flatten(ResultClusters(db.result))) = Len(pts)
                   /\ \A i, j \in 1..Len(pts) :
                         (cl(i) = cl(j)) <=> j \in Neighbourhood(pts, db.eps, i)
                   /\ Len(ResultClusters(db.result))
                         = Cardinality({Neighbourhood(pts, db.eps, i) :
                                           i \in 1..Len(pts)})

\* a result with two clusters and a non-dense input within eps of a dense
\* input of each
C14_Witness ==
    /\ db.pc = "done" /\ db.result.ok /\ F64Le(0, db.eps)
    /\ Len(ResultClusters(db.result)) >= 2
    /\ LET pts   == extract_centroids(db.geoms).val
           D     == DenseSet(pts, db.eps, db.min_points)
           cl(i) == ClustersOf(db.result, pts, i)
       IN  \E i \in (1..Len(pts)) \ D :
              \E j, k \in Neighbourhood(pts, db.eps, i) \cap D :
                 cl(j) \cap cl(k) = {}

\* the n-th smallest member of a set of numbers
NthOf(S, n) == CHOOSE x \in S : Cardinality({y \in S : y < x}) = n - 1

\* C15: for an assignment vector with at least one assigned input,
\* build_cluster_result returns a GeometryCollection with one MultiPoint per
\* distinct assigned cluster id, in ascending order of the ids, none empty,
\* each holding the centroids of the inputs assigned to its id, in input order;
\* unassigned inputs are in no MultiPoint; the result has the srid of the first
\* input.
C15_BuildClusterResult ==
    (/\ last.op = "build_cluster_result"
     /\ \E i \in 1..Len(last.assignments) : IsSome(last.assignments[i])) =>
        LET a    == last.assignments
            ids  == {Unwrap(a[i]) : i \in {j \in 1..Len(a) : IsSome(a[j])}}
            of(k) == {i \in 1..Len(a) : a[i] = Some(k)}
        IN  /\ last.ret.ok
            /\ last.ret.val.geometry_type.kind = "GeometryCollection"
            /\ last.ret.val.srid = last.geoms[1].srid
            /\ Len(last.ret.val.geometry_type.geoms) = Cardinality(ids)
            /\ \A c \in 1..Cardinality(ids) :
                  LET child == last.ret.val.geometry_type.geoms[c]
                      idx   == of(NthOf(ids, c))
                  IN  /\ child.geometry_type.kind = "MultiPoint"
                      /\ Len(child.geometry_type.coords) = Cardinality(idx)
                      /\ Len(child.geometry_type.coords) >= 1
                      /\ \A n \in 1..Cardinality(idx) :
                            child.geometry_type.coords[n]
                                = last.geoms[NthOf(idx, n)].geometry_type.c

\* ids 2 and 0 assigned, out of order, with an unassigned input between, and
\* a first input in another reference system than the last
C15_Witness ==
    /\ last.op = "build_cluster_result"
    /\ last.ret.ok
    /\ Len(last.assignments) = 3
    /\ last.assignments[1] = Some(2)
    /\ last.assignments[2] = None
    /\ last.assignments[3] = Some(0)
    /\ last.geoms[1].srid # last.geoms[3].srid

\* C16: for a non-empty input of n geometries and k >= 1, whatever the seeding
\* draws, the result of st_cluster_kmeans has exactly min(k, n) MultiPoints,
\* none of them empty.
C16_KmeansExactlyK ==
    (km.pc = "done" /\ Len(km.geoms) > 0 /\ km.k >= 1 /\ km.result.ok) =>
        /\ Len(ResultClusters(km.result)) = Min2(km.k, Len(km.geoms))
        /\ \A c \in 1..Len(ResultClusters(km.result)) :
              Len(ResultClusters(km.result)[c]) >= 1

\* C17 as stated: with distance 0 the result of st_cluster_within has as many
\* clusters as inputs, each of size 1.
C17_AsStated ==
    (uf.pc = "done" /\ uf.distance = 0 /\ Len(uf.geoms) > 0 /\ uf.result.ok) =>
        /\ Len(ResultClusters(uf.result)) = Len(uf.geoms)
        /\ \A c \in 1..Len(ResultClusters(uf.result)) :
              Len(ResultClusters(uf.result)[c]) = 1

\* C17: a successful result of st_cluster_within with distance 0 groups the
\* inputs by equal centroid: there is one cluster per distinct centroid, and it
\* holds every input with that centroid and no other; so every input is a
\* singleton cluster exactly when no two centroids are equal.
C17_ZeroDistanceGroupsEqual ==
    (uf.pc = "done" /\ uf.distance = 0 /\ Len(uf.geoms) > 0 /\ uf.result.ok) =>
        LET pts == extract_centroids(uf.geoms).val
            cl  == ResultClusters(uf.result)
        IN  /\ Len(cl) = Cardinality(SeqRange(pts))
            /\ \A c \in 1..Len(cl) :
                  /\ Cardinality(SeqRange(cl[c])) = 1
                  /\ Len(cl[c]) = Occurrences(pts, cl[c][1])
            /\ \A c, d \in 1..Len(cl) : c # d => cl[c][1] # cl[d][1]

\* a call with distance 0 on an input that holds one centroid twice and another
\* centroid besides
C17_Witness ==
    /\ uf.pc = "done" /\ uf.distance = 0 /\ uf.result.ok
    /\ Len(ResultClusters(uf.result)) >= 2
    /\ \E c \in 1..Len(ResultClusters(uf.result)) :
          Len(ResultClusters(uf.result)[c]) >= 2

(***************************************************************************)
(* Two indexes over the same entries: tree.bulk made by bulk_load and      *)
(* tree.seq made by new() and one insert per entry, and the same remove    *)
(* calls on both.                                                          *)
(***************************************************************************)

\* insert of entries[i..] into t, one by one, as tests::
\* bulk_load_vs_sequential_same_results does
RECURSIVE InsertAll(_, _, _)
InsertAll(t, entries, i) ==
    IF i > Len(entries) THEN t
    ELSE InsertAll(insert(t, entries[i][1], entries[i][2]).val, entries, i + 1)

BuildBoth ==
    /\ last.op = "none"
    /\ \E entries \in SeqsUpTo(Ids \X {g \in IndexGeoms : IsSome(g.bbox)},
                               MaxEntries) :
          /\ tree' = [bulk |-> bulk_load(entries).val,
                      seq  |-> InsertAll(EmptyBag, entries, 1)]
          /\ last' = [op |-> "build", entries |-> entries]
    /\ UNCHANGED <<removed, gvars, db, uf, km>>

\* remove(id) on both indexes: each takes out an entry with that id, the one
\* its own tree finds
RemoveBoth ==
    /\ last.op # "none"
    /\ \E id \in Ids :
          \E rb \in remove(tree.bulk, id), rs \in remove(tree.seq, id) :
              /\ tree' = [bulk |-> rb.tree, seq |-> rs.tree]
              /\ last' = [op |-> "remove", id |-> id,
                          ret_bulk |-> rb.ret, ret_seq |-> rs.ret]
    /\ UNCHANGED <<removed, gvars, db, uf, km>>

TwoIndexNext ==
    \/ BuildBoth
    \/ RemoveBoth

InitTwoIndex ==
    /\ tree = [bulk |-> EmptyBag, seq |-> EmptyBag]
    /\ last = [op |-> "none"]
    /\ removed = {}
    /\ gin = [ctor |-> "none"]
    /\ gout = Err("none")
    /\ gpc = "start"
    /\ db = [pc |-> "idle"]
    /\ uf = [pc |-> "idle"]
    /\ km = [pc |-> "idle"]

SpecTwoIndex == InitTwoIndex /\ [][TwoIndexNext]_vars

\* len() and the id sets of every query_bbox and query_within_distance agree
ObservationallyEqual(a, b) ==
    /\ len(a) = len(b)
    /\ \A bbox \in QueryBoxes :
          BagToSet(query_bbox(a, bbox)) = BagToSet(query_bbox(b, bbox))
    /\ \A pt \in QueryPoints, distance \in QueryDistances :
          BagToSet(query_within_distance(a, pt, distance))
              = BagToSet(query_within_distance(b, pt, distance))

\* C18: the index made by bulk_load and the index made by inserting the same
\* pairs one by one are observationally equal, and stay so under the same
\* remove calls.
C18_BulkLoadEqualsInserts ==
    last.op # "none" => ObservationallyEqual(tree.bulk, tree.seq)

\* C19: compute_bbox on a geometry a constructor returned, or on one that
\* compute_bbox was already called on, leaves its bbox and its flags as they
\* were before the call.
C19_ComputeBBoxIdempotent ==
    [][gpc' = "recomputed" =>
          /\ gout'.val.bbox = gout.val.bbox
          /\ gout'.val.flags = gout.val.flags]_vars

\* compute_bbox was called on a polygon with a hole
C19_Witness ==
    /\ gpc = "recomputed"
    /\ gout.ok
    /\ gout.val.geometry_type.kind = "Polygon"
    /\ Len(gout.val.geometry_type.holes) >= 1
    /\ IsSome(gout.val.bbox)

\* C20: from_coordinates returns None iff the slice is empty; for a non-empty
\* slice it returns a box with min <= max on both axes that contains every
\* coordinate of the slice and whose min_x, min_y, max_x and max_y are each
\* attained by a coordinate of the slice.
C20_FromCoordinatesTight ==
    last.op = "from_coordinates" =>
        LET cs == last.coords
        IN  /\ (last.ret = None) <=> (Len(cs) = 0)
            /\ Len(cs) > 0 =>
                  LET b == Unwrap(last.ret)
                  IN  /\ b.min_x <= b.max_x /\ b.min_y <= b.max_y
                      /\ \A i \in 1..Len(cs) :
                            /\ b.min_x <= cs[i].x /\ cs[i].x <= b.max_x
                            /\ b.min_y <= cs[i].y /\ cs[i].y <= b.max_y
                      /\ \E i \in 1..Len(cs) : cs[i].x = b.min_x
                      /\ \E i \in 1..Len(cs) : cs[i].y = b.min_y
                      /\ \E i \in 1..Len(cs) : cs[i].x = b.max_x
                      /\ \E i \in 1..Len(cs) : cs[i].y = b.max_y

\* a slice of three coordinates or more, none at the origin alone, whose box
\* has a width and a height
C20_Witness ==
    /\ last.op = "from_coordinates"
    /\ Len(last.coords) >= 3
    /\ IsSome(last.ret)
    /\ Unwrap(last.ret).min_x > 0
    /\ Unwrap(last.ret).min_x < Unwrap(last.ret).max_x
    /\ Unwrap(last.ret).min_y < Unwrap(last.ret).max_y

\* min <= max on both axes
BoxValid(b) == b.min_x <= b.max_x /\ b.min_y <= b.max_y

SharePoint(a, b) ==
    \E x \in BoxValues, y \in BoxValues :
        /\ a.min_x <= x /\ x <= a.max_x /\ a.min_y <= y /\ y <= a.max_y
        /\ b.min_x <= x /\ x <= b.max_x /\ b.min_y <= y /\ y <= b.max_y

\* C22: bbox_pre_filter(a, b) is false iff the closed boxes a and b have no
\* point in common (boxes touching at an edge or a corner give true), it is
\* symmetric and agrees with BoundingBox::intersects; and the pre-filters of
\* the relationship predicates answer (no intersection, resp. disjoint) only
\* for two geometries that both have a bbox, these being disjoint.
C22_PreFilterIsDisjointness ==
    /\ last.op = "bbox_pre_filter" =>
          /\ last.ret <=> SharePoint(last.a, last.b)
          /\ last.ret = last.rev
          /\ last.ret = last.intersects
    /\ last.op = "predicates_pre_filter" =>
          LET disjoint == /\ IsSome(last.a.bbox) /\ IsSome(last.b.bbox)
                          /\ ~SharePoint(Unwrap(last.a.bbox), Unwrap(last.b.bbox))
          IN  /\ last.ret = (IF disjoint THEN Some(FALSE) ELSE None)
              /\ last.disjoint = (IF disjoint THEN Some(TRUE) ELSE None)

\* two boxes that touch at a corner only
C22_Witness ==
    /\ last.op = "bbox_pre_filter"
    /\ last.ret
    /\ last.a.max_x = last.b.min_x /\ last.a.max_y = last.b.min_y
    /\ last.a.min_x < last.a.max_x /\ last.b.min_x < last.b.max_x
    /\ last.a.min_y < last.a.max_y /\ last.b.min_y < last.b.max_y

\* the entries of an index with another id than id, each as often as held
OtherEntries(t, id) ==
    [e \in {f \in BagToSet(t) : f.id # id} |-> CopiesIn(e, t)]

\* C23: a step of remove(id) leaves every entry with another id in the
\* index, as often as before, also one with the envelope of the entry taken
\* out, and every query_bbox keeps returning those ids; it returns true iff an
\* entry had that id, and when none had, the index is as before.
C23_RemoveFrame ==
    [][last'.op = "remove" =>
          /\ OtherEntries(tree', last'.id) = OtherEntries(tree, last'.id)
          /\ \A bbox \in QueryBoxes :
                BagToSet(query_bbox(tree, bbox)) \ {last'.id}
                    \subseteq BagToSet(query_bbox(tree', bbox))
          /\ last'.ret <=> (\E e \in BagToSet(tree) : e.id = last'.id)
          /\ ~last'.ret => (tree' = tree /\ len(tree') = len(tree))
          /\ last'.ret => len(tree') = len(tree) - 1]_vars

\* remove took out an entry and left one with another id and the same envelope
C23_Witness ==
    /\ last.op = "remove"
    /\ last.ret
    /\ \E v \in last.taken, e \in BagToSet(tree) :
          e.id # v.id /\ e.envelope = v.envelope


(***************************************************************************)
(* The three clustering functions together.  One clustering call per       *)
(* behaviour: any of the three functions, never two.                       *)
(***************************************************************************)

ClusteringNext ==
    \/ DbscanCall
    \/ DbscanVisit
    \/ DbscanExpand
    \/ DbscanCloseCluster
    \/ DbscanReturn
    \/ WithinCall
    \/ WithinPair
    \/ WithinReturn
    \/ KmeansCall
    \/ KmeansSeed
    \/ KmeansIterate
    \/ KmeansReturn

InitClustering ==
    /\ db = [pc |-> "idle"]
    /\ uf = [pc |-> "idle"]
    /\ km = [pc |-> "idle"]
    /\ gin = [ctor |-> "none"]
    /\ gout = Err("none")
    /\ gpc = "start"
    /\ tree = EmptyBag
    /\ last = [op |-> "none"]
    /\ removed = {}

SpecClustering == InitClustering /\ [][ClusteringNext]_vars

\* the cluster ids of an assignment vector
IdsInUse(a) == {Unwrap(a[i]) : i \in {j \in 1..Len(a) : IsSome(a[j])}}

\* the lowest index of S assigned to cluster k, 0 when there is none
FirstIndex(a, k, S) ==
    LET of == {i \in S : a[i] = Some(k)}
    IN  IF of = {} THEN 0 ELSE CHOOSE i \in of : \A j \in of : i <= j

\* the ids of a are 0..c-1 and grow with the lowest index of S in the cluster
InDiscoveryOrder(a, S) ==
    /\ IdsInUse(a) = 0..(Cardinality(IdsInUse(a)) - 1)
    /\ \A k \in IdsInUse(a) : FirstIndex(a, k, S) # 0
    /\ \A k, l \in IdsInUse(a) :
          k < l => FirstIndex(a, k, S) < FirstIndex(a, l, S)

\* MultiPoint number c of the result holds the inputs assigned to id c - 1
ResultInIdOrder(result, pts, a) ==
    /\ Len(ResultClusters(result)) = Cardinality(IdsInUse(a))
    /\ \A c \in 1..Len(ResultClusters(result)) :
          LET idx == {i \in 1..Len(a) : a[i] = Some(c - 1)}
          IN  /\ Len(ResultClusters(result)[c]) = Cardinality(idx)
              /\ \A n \in 1..Cardinality(idx) :
                    ResultClusters(result)[c][n] = pts[NthOf(idx, n)]

\* C24: in a successful call of st_cluster_within and of st_cluster_dbscan the
\* cluster ids in use are exactly 0..c-1, without a gap, in the order of first
\* discovery: for within, input 0 has id 0 and the ids grow with the smallest
\* input index of the cluster; for dbscan, the ids grow with the input index of
\* the lowest-indexed dense point of the cluster; and the MultiPoints of the
\* result stand in the order of the ids.
C24_ClusterIdsInDiscoveryOrder ==
    /\ (uf.pc = "done" /\ uf.result.ok) =>
          LET pts == extract_centroids(uf.geoms).val
          IN  /\ InDiscoveryOrder(uf.assignments, 1..Len(pts))
              /\ uf.assignments[1] = Some(0)
              /\ ResultInIdOrder(uf.result, pts, uf.assignments)
    /\ (db.pc = "done" /\ db.result.ok) =>
          LET pts == extract_centroids(db.geoms).val
              D   == {i \in 1..Len(pts) :
                         Len(region_query(pts, i, F64Mul(db.eps, db.eps)))
                             >= db.min_points}
          IN  /\ InDiscoveryOrder(db.assignments, D)
              /\ ResultInIdOrder(db.result, pts, db.assignments)

\* a dbscan result whose second cluster holds an input of lower index than
\* every input of the first, and a within result of two clusters whose second
\* holds input 1
C24_Witness ==
    \/ /\ db.pc = "done" /\ db.result.ok
       /\ \E i \in 1..Len(db.assignments) :
             /\ db.assignments[i] = Some(1)
             /\ \A j \in 1..Len(db.assignments) :
                   db.assignments[j] = Some(0) => i < j
    \/ /\ uf.pc = "done" /\ uf.result.ok
       /\ Len(uf.assignments) >= 3
       /\ uf.assignments[2] = Some(1)
       /\ uf.assignments[3] = Some(0)


\* a clustering call is under way
Running ==
    \/ db.pc \in {"loop", "expand"}
    \/ uf.pc = "pairs"
    \/ km.pc \in {"seed", "lloyd"}

\* the steps st_cluster_dbscan has left at most, for n points
DbscanRank(d) ==
    CASE d.pc = "loop" ->
           1 + (Len(d.points) + 1 - d.i) * (Len(d.points) + 3) + Len(d.points) + 2
      [] d.pc = "expand" ->
           1 + (Len(d.points) + 1 - d.i) * (Len(d.points) + 3)
             + Len(d.points) + 1 - d.qi
      [] OTHER -> 0

\* the pairs st_cluster_within has left at most
WithinRank(u) ==
    IF u.pc = "pairs"
    THEN 1 + (Len(u.points) + 1 - u.i) * (Len(u.points) + 1) + Len(u.points) + 1 - u.j
    ELSE 0

\* the passes st_cluster_kmeans has left at most
KmeansRank(k) ==
    CASE k.pc = "seed" -> 3 + MaxIterations + seed_rounds(k.kk) - k.round
      [] k.pc = "lloyd" -> IF k.converged THEN 1 ELSE 2 + MaxIterations - k.iteration
      [] OTHER -> 0

Rank == DbscanRank(db) + WithinRank(uf) + KmeansRank(km)

\* the entry n parent links away from entry i
RECURSIVE Follow(_, _, _)
Follow(parent, i, n) == IF n = 0 THEN i ELSE Follow(parent, parent[i], n - 1)

\* following the parent links from i ends in a root
ReachesRoot(parent, i) ==
    LET r == Follow(parent, i, Len(parent)) IN parent[r] = r

\* C25: every call of st_cluster_dbscan, st_cluster_within and
\* st_cluster_kmeans returns after finitely many steps: each step of a call
\* under way lowers a non-negative bound on the steps left; the DBSCAN queue
\* never holds an index twice, so it is never longer than the input, and no
\* point is region-queried twice; every chain of parent links of the
\* union-find ends in a root; k-means makes at most 100 assignment passes,
\* returns after the first pass that changes nothing, and a center without
\* members keeps its position in the update step.  (On inputs of up to MaxPoints
\* points Lloyd's iteration settles within a few passes: the cap of 100 enters
\* the bound on the steps left, but no call of the model runs into it.)
C25_ClusteringTerminates ==
    [][Running =>
         /\ Rank' < Rank /\ Rank' >= 0
         /\ db.pc \in {"loop", "expand"} =>
               /\ \A a, b \in 1..Len(db.queue) : db.queue[a] = db.queue[b] => a = b
               /\ Len(db.queue) <= Len(db.points)
               /\ \A i \in 1..Len(db.points) : db.queried[i] <= 1
         /\ uf.pc = "pairs" =>
               \A i \in 1..Len(uf.parent) : ReachesRoot(uf.parent, i)
         /\ km.pc = "lloyd" =>
               /\ km.iteration + (IF km.converged THEN 1 ELSE 0) <= MaxIterations
               /\ km.converged => km'.pc = "done"
               /\ (km'.pc = "lloyd" /\ km'.iteration > km.iteration) =>
                     \A c \in 1..Len(km.centers) :
                        (\A i \in 1..Len(km.points) : km'.assignments[i] # c - 1)
                            => km'.centers[c] = km.centers[c]]_vars

\* a DBSCAN call whose queue holds every input while a queued input is still
\* to be taken; a union-find with a chain of two parent links; a k-means call
\* that returned after a pass in which a center had no member
C25_Witness ==
    \/ /\ db.pc = "expand"
       /\ Len(db.queue) = Len(db.points) /\ Len(db.points) >= 3
       /\ db.qi < Len(db.queue)
    \/ /\ uf.pc = "pairs"
       /\ \E i \in 1..Len(uf.parent) :
             uf.parent[i] # i /\ uf.parent[uf.parent[i]] # uf.parent[i]
    \/ /\ km.pc = "lloyd" /\ km.iteration >= 1
       /\ \E c \in 1..Len(km.centers) :
             \A i \in 1..Len(km.points) : km.assignments[i] # c - 1


\* the position of input i is the position of a chosen center
AtCenter(p, centers) ==
    \E c \in 1..Len(centers) : p = <<centers[c][1], centers[c][2]>>

\* C26: during the k-means++ seeding every chosen center is an input point,
\* there are at most k centers, no draw selects a point at squared distance 0
\* from its nearest chosen center, so the centers have pairwise distinct
\* positions, and the seeding stops before k centers only when every input
\* coincides with a chosen center.
C26_SeedingDistinct ==
    (km.pc \in {"seed", "lloyd"} /\ km.iteration = 0) =>
        /\ \A c \in 1..Len(km.centers) :
              \E i \in 1..Len(km.points) :
                 km.centers[c] = <<km.points[i][1], km.points[i][2], 1>>
        /\ Len(km.centers) <= km.k
        /\ \A c, d \in 1..Len(km.centers) :
              (km.centers[c][1] = km.centers[d][1]
                 /\ km.centers[c][2] = km.centers[d][2]) => c = d
        /\ (km.pc = "lloyd" /\ Len(km.centers) < km.kk) =>
              \A i \in 1..Len(km.points) : AtCenter(km.points[i], km.centers)


\* SurrealGeometry::is_empty, and st_is_empty, which returns it
is_empty(g) == "IS_EMPTY" \in g.flags

\* SurrealGeometry::dimension
dimension(g) ==
    IF "HAS_Z" \in g.flags /\ "HAS_M" \in g.flags THEN 4
    ELSE IF "HAS_Z" \in g.flags THEN 3
    ELSE 2

\* C27: the flags of a constructed geometry agree with its data: HAS_BBOX is
\* set iff a bounding box is stored; HAS_Z and HAS_M are set iff the
\* coordinates carry z and m, so that dimension() is 3 with z and 4 with z and
\* m; IS_EMPTY is set, and is_empty() true, iff the geometry has no coordinate.
C27_FlagsAgree ==
    (gpc = "built" /\ gout.ok) =>
        LET g  == gout.val
            cs == AllCoords(g)
            z  == cs # {} /\ \A c \in cs : IsSome(c.z)
            m  == cs # {} /\ \A c \in cs : IsSome(c.m)
        IN  /\ ("HAS_BBOX" \in g.flags) <=> IsSome(g.bbox)
            /\ ("HAS_Z" \in g.flags) <=> z
            /\ ("HAS_M" \in g.flags) <=> m
            /\ dimension(g) = (IF z /\ m THEN 4 ELSE IF z THEN 3 ELSE 2)
            /\ is_empty(g) <=> (cs = {})


\* the ids of the entries of the index
StoredIds(t) == {e.id : e \in BagToSet(t)}

\* C28: whatever insert, bulk_load and remove did, the index holds at most
\* one entry per id, no query returns an id twice, and len() is the number of
\* distinct ids stored.
C28_OneEntryPerId ==
    /\ \A e \in BagToSet(tree) :
          /\ CopiesIn(e, tree) = 1
          /\ \A f \in BagToSet(tree) : f.id = e.id => f = e
    /\ len(tree) = Cardinality(StoredIds(tree))
    /\ last.op \in {"query_bbox", "query_within_distance"} =>
          \A id \in BagToSet(last.ret) : CopiesIn(id, last.ret) = 1
    /\ last.op = "query_nearest" =>
          \A a, b \in 1..Len(last.ret) : last.ret[a][1] = last.ret[b][1] => a = b

\* C29: query_within_distance with a negative distance returns no ids, for
\* every index content and every query point, and never the ids it returns
\* for the distance of the same size above 0.
C29_NegativeDistanceEmpty ==
    (last.op = "query_within_distance" /\ last.distance < 0) =>
        /\ last.ret = EmptyBag
        /\ query_within_distance(tree, last.pt, 0 - last.distance) # EmptyBag
              => last.ret # query_within_distance(tree, last.pt, 0 - last.distance)

\* C30: every geometry from_geo returns Ok satisfies the structural rules of
\* the constructors (is_valid_geometry: no empty multi-geometry, line strings
\* of at least 2 points, closed rings of at least 4 points) and has a bounding
\* box, so that insert takes it and never fails with NoBoundingBox.
C30_FromGeoValid ==
    (last.op = "from_geo" /\ last.ret.ok) =>
        /\ is_valid_geometry(last.ret.val)
        /\ StructurallySound(last.ret.val)
        /\ IsSome(last.ret.val.bbox)
        /\ insert(EmptyBag, 0, last.ret.val).ok

=============================================================================
